---- MODULE Spec2Model ----
(***************************************************************************)
(* Component lifecycle and capability resolution of the cassandra model    *)
(* coupling framework (cassandra/components.py, cassandra/cassandra_main.py)*)
(*                                                                         *)
(* One process: the main thread bootstraps the components of a             *)
(* configuration, starts one thread per component and joins them.  Every   *)
(* component thread runs run_component_wrapper(); bodies call fetch() and  *)
(* addresults().  The condition variable of a component is a Python        *)
(* threading.Condition(), i.e. a reentrant lock plus a set of waiters.     *)
(*                                                                         *)
(* Several processes (main with --mp, cassandra/mp.py, cassandra/rab.py):  *)
(* the supervisor deals the sections of the configuration to the ranks,    *)
(* every rank builds its components and its RAB, the ranks exchange the    *)
(* names of their capabilities and enter the remote ones in their tables.  *)
(***************************************************************************)
EXTENDS Integers, Sequences, FiniteSets, TLC

\* ---------------------------------------------------------------- bounds
MaxReqs == 2        \* most fetch() calls one DummyComponent body makes
MaxPeers == 3       \* most processes of a multi-process run
MaxRunPeers == 2    \* most processes of a run followed beyond bootstrap
MaxRunReqs == 1     \* most fetch() calls of a body in such a run

\* ------------------------------------------------------ the configuration
\* The sections of the configuration file, in file order: [Global], one
\* GcamComponent and two DummyComponent sections.
Sections == <<"Global", "Gcam", "D1", "D2">>
Comps == {Sections[i] : i \in 1..Len(Sections)}
\* The configuration files main() is run on: the one above, one without a
\* [Global] section, one with a section of a type compfactory does not
\* know, one whose [Global] section comes last, and one that has no other
\* section than [Global].
\* The orders a well-behaved run can be given: a component fetches only
\* capabilities of components later in the order, so the dependencies are
\* acyclic, and no body fails by itself.  In <<"D1", "D2", ...>> the consumer
\* is started before its producer, in <<"D2", "D1", ...>> after it.
AcyclicOrders == {<<"D1", "D2", "Gcam", "Global">>,
                  <<"D2", "D1", "Gcam", "Global">>}
ConfigFiles == {Sections,
                <<"Gcam", "D1", "D2">>,
                <<"Global", "Gcam", "D1", "Bogus">>,
                <<"D1", "Global">>,
                <<"Global">>}
Dummies == {"D1", "D2"}
DummyNames == {"Alice", "Bob"}
\* The name parameter a DummyComponent section can have: the two sections
\* have different names, or both are named Alice
NamesFor(c) == IF c = "D2" THEN DummyNames ELSE {"Alice"}
\* The names of the two sections when they must differ
DistinctName(c) == IF c = "D2" THEN "Bob" ELSE "Alice"
CapNames == {"general", "gcam-core", "NotACapability"} \cup DummyNames
\* The configuration of a multi-process run can have a third DummyComponent
\* section, whose name is Carol
RunDummies == Dummies \cup {"D3"}
RunComps == Comps \cup RunDummies
RunCapNames == CapNames \cup {"Carol"}
\* Result values are objects, named by the component that built them: the
\* params dict of [Global], the gcamrslt dict of GcamComponent, the data
\* list of a DummyComponent.  Two values are the same object iff equal.
ObjectOf(c) == c
Vals == Comps
NoComp == "none"
NoCap == "none"
NoVal == "none"

\* The parameters of a section that are modelled: two of [Global] (a path
\* is "rel" as written in the file, "abs" once made absolute) and the name
\* of a DummyComponent section.  "absent": the key is not in the mapping.
ParamKeys == {"ModelInterface", "inputdir", "name"}
NoParams == [k \in ParamKeys |-> "absent"]
\* The [Global] sections: a complete one that leaves inputdir to its
\* default, and one that lacks the ModelInterface parameter
GlobalSections ==
    {[NoParams EXCEPT !["ModelInterface"] = "rel"], NoParams}

PENDING == 0
SUCCESS == 1
FAILURE == 2

VARIABLES
    sections,    \* the section names of the configuration file, in order
    deporder,    \* <<>>, or the order the fetch requests of the bodies obey
    mainpc,      \* position of the main thread
    mainidx,     \* index of the section / component the main thread is at
    err,         \* exception raised on the main thread ("none" if none)
    call,        \* the most recent addcapability / addresults call
    cap_tbl,     \* capability table: name -> owning component (or NoComp)
    name,        \* DummyComponent.name (NoCap before finalize_parsing)
    params,      \* ComponentBase.params: key -> value ("absent": no entry)
    status,      \* ComponentBase.status
    results,     \* ComponentBase.results: name -> value (NoVal: no entry)
    lockOwner,   \* thread owning the component's condition lock
    lockCount,   \* recursion level of that (reentrant) lock
    waiters,     \* threads inside condition.wait(), not yet notified
    pc,          \* position of each component thread
    target,      \* capability a thread is fetching
    saved,       \* recursion level saved by condition.wait()
    fres,        \* outcome of the thread's most recent fetch
    nreq,        \* number of fetch calls the body has made
    outcome,     \* how run_component ended: "none", "ret0", "retnz", "raise";
                 \* of an ended thread: how the wrapper ended, "returned", "raised"
    published,   \* history: value of the last successful addresults
    notified     \* history: number of condition.notify_all() calls

\* The state of a multi-process run (main with --mp, one process per rank)
VARIABLES
    config,      \* the sections of the configuration file the supervisor reads
    nproc,       \* MPI world size (0: the run is not a multi-process run)
    assignments, \* the supervisor's list of assignments, one per rank
    inbox,       \* TAG_CONFIG messages in flight, by destination rank
    gathered,    \* the contributions to the allgather collective, by rank
    peer         \* the state of the main thread and the tables of each rank

\* The state of a multi-process run once main has started its threads
VARIABLES
    thread,      \* the component threads of each rank, by section
    rab,         \* the RAB of each rank and its listener thread
    chan,        \* chan[s][d]: messages sent by rank s to rank d, in order
    aborted      \* MPI_Abort has been executed on the world communicator


\* the state of the threads and of the transport of a multi-process run
rtvars == <<thread, rab, chan, aborted>>
mpvars == <<config, nproc, assignments, inbox, gathered, peer, rtvars>>
\* what no step of a single-process run changes
cfgvars == <<sections, deporder, mpvars>>
\* the state of the single-process run
spvars == <<sections, deporder, mainpc, mainidx, err, call, cap_tbl, name,
            params, status, results, lockOwner, lockCount, waiters, pc,
            target, saved, fres, nreq, outcome, published, notified>>
vars == <<spvars, mpvars>>
mainvars == <<mainpc, mainidx, err>>
lockvars == <<lockOwner, lockCount, waiters>>
fetchvars == <<target, saved, fres, nreq>>

NoCall == [op |-> "none", comp |-> NoComp, cap |-> NoCap, val |-> NoVal,
           raised |-> "none"]
NoFetch == [kind |-> "none", cap |-> NoCap, val |-> NoVal]

\* ------------------------------------------------ ComponentBase operations

\* capability in self.cap_tbl
InTable(tbl, cap) == tbl[cap] # NoComp

\* addcapability without the duplicate check
addcapability_overwrite(tbl, c, cap) ==
    [raised |-> "none", tbl |-> [tbl EXCEPT ![cap] = c]]

\* ComponentBase.addcapability
addcapability(tbl, c, cap) ==
    IF InTable(tbl, cap)
    THEN [raised |-> "DuplicateCapability", tbl |-> tbl]
    ELSE [raised |-> "none", tbl |-> [tbl EXCEPT ![cap] = c]]

\* addresults that checks the capability but forgets to store the value
addresults_nostore(tbl, res, c, cap, v) ==
    IF ~InTable(tbl, cap)
    THEN [raised |-> "CapabilityNotFound", res |-> res]
    ELSE IF tbl[cap] # c
    THEN [raised |-> "NotOwned", res |-> res]
    ELSE [raised |-> "none", res |-> res]

\* addresults without the ownership check
addresults_anyowner(tbl, res, c, cap, v) ==
    IF ~InTable(tbl, cap)
    THEN [raised |-> "CapabilityNotFound", res |-> res]
    ELSE [raised |-> "none", res |-> [res EXCEPT ![cap] = v]]

\* ComponentBase.addresults; res is self.results
addresults(tbl, res, c, cap, v) ==
    IF ~InTable(tbl, cap)
    THEN [raised |-> "CapabilityNotFound", res |-> res]
    ELSE IF tbl[cap] # c
    THEN [raised |-> "NotOwned", res |-> res]
    ELSE [raised |-> "none", res |-> [res EXCEPT ![cap] = v]]

\* a lookup that falls back to the general parameters on a miss
Lookup_default(tbl, cap) ==
    IF InTable(tbl, cap)
    THEN [raised |-> "none", provider |-> tbl[cap]]
    ELSE [raised |-> "none", provider |-> "Global"]

\* ComponentBase.fetch, the lookup: the provider, or CapabilityNotFound
Lookup(tbl, cap) ==
    IF InTable(tbl, cap)
    THEN [raised |-> "none", provider |-> tbl[cap]]
    ELSE [raised |-> "CapabilityNotFound", provider |-> NoComp]

\* a fetch that never waits
MustWait_never(st) == FALSE

\* ComponentBase.fetch, inside the with block: wait iff not yet run
MustWait(st) == st = PENDING

\* a fetch that raises only when the producer has not run
ReadResult_pending(st, res, cap) ==
    IF st = PENDING
    THEN [kind |-> "ProducerFailed", cap |-> cap, val |-> NoVal]
    ELSE IF res[cap] = NoVal
    THEN [kind |-> "KeyError", cap |-> cap, val |-> NoVal]
    ELSE [kind |-> "value", cap |-> cap, val |-> res[cap]]

\* ComponentBase.fetch, after the with block: error, or the stored result
ReadResult(st, res, cap) ==
    IF st # SUCCESS
    THEN [kind |-> "ProducerFailed", cap |-> cap, val |-> NoVal]
    ELSE IF res[cap] = NoVal
    THEN [kind |-> "KeyError", cap |-> cap, val |-> NoVal]
    ELSE [kind |-> "value", cap |-> cap, val |-> res[cap]]

\* a wrapper that accepts every value run_component returns
StatusFor_anyreturn(out) == IF out \in {"ret0", "retnz"} THEN SUCCESS ELSE FAILURE

\* run_component_wrapper: the status for the way run_component ended
StatusFor(out) == IF out = "ret0" THEN SUCCESS ELSE FAILURE

\* a wrapper that notifies only after a successful body
NotifiesOn_success(out) == out = "ret0"

\* run_component_wrapper: the finally clause notifies on every path
NotifiesOn(out) == out \in {"ret0", "retnz", "raise"}

\* ------------------------------------------------- the inputs of a run

\* position of component c in the order ord
PosIn(ord, c) == CHOOSE i \in 1..Len(ord) : ord[i] = c

\* the section names a DummyComponent section can be given
NameChoices(ord, c) ==
    IF ord = <<>> THEN NamesFor(c) ELSE {DistinctName(c)}

\* capability_reqs: the capabilities the body of t can request
ReqChoices(ord, tbl, t) ==
    IF ord = <<>> THEN CapNames
    ELSE {cap \in CapNames :
            InTable(tbl, cap) /\ PosIn(ord, t) < PosIn(ord, tbl[cap])}

\* whether a DummyComponent section has the 'except' parameter
ExceptChoices(ord) == IF ord = <<>> THEN BOOLEAN ELSE {FALSE}

\* the parameters the configuration file gives the section of c
SectionChoices(ord, c, n) ==
    IF c = "Global"
    THEN IF ord = <<>> THEN GlobalSections
         ELSE {g \in GlobalSections : g["ModelInterface"] # "absent"}
    ELSE IF c \in Dummies THEN {[NoParams EXCEPT !["name"] = n]}
    ELSE {NoParams}

\* a component whose general parameters start out ready
InitialStatus_general(c) == IF c = "Global" THEN SUCCESS ELSE PENDING

\* ComponentBase.__init__: self.status = 0
InitialStatus(c) == PENDING

\* ------------------------------------------- the multi-process inputs

\* constants.py
SUPERVISOR_RANK == 0

Ranks == 0..(MaxPeers - 1)
\* the ranks of a world of n processes
World(n) == 0..(n - 1)

\* The value of mp.weight in a section, as the characters ConfigObj read:
\* "2", "10", or no such parameter (the empty sequence)
Weights == {<<>>, <<2>>, <<1, 0>>}

\* A section of the configuration: its name, its mp.weight and, for a
\* DummyComponent, its name parameter
Section(sec, w, n) == [sec |-> sec, weight |-> w, name |-> n]
GlobalSection == Section("Global", <<>>, NoCap)

\* every ordering of every subset of the component sections
Orderings(S) ==
    {q \in UNION {[1..k -> S] : k \in 0..Cardinality(S)} :
        \A i \in DOMAIN q : \A j \in DOMAIN q : i # j => q[i] # q[j]}

\* The configuration files given to the supervisor: the component sections
\* in any order with any weights, with or without a [Global] section
AssignConfigs ==
    UNION {
      UNION {
        { g \o [i \in DOMAIN q |->
                  Section(q[i], w[i], IF q[i] \in Dummies
                                      THEN DistinctName(q[i])
                                      ELSE NoCap)] :
            w \in [DOMAIN q -> Weights] } :
        q \in Orderings({"Gcam", "D1", "D2"}) } :
      g \in {<<>>, <<GlobalSection>>} }

\* The configuration files of the multi-process runs: all sections, no
\* weights or a weight on every component section, the two DummyComponent
\* sections with different names or the same name
MPConfigs ==
    {<<GlobalSection, Section("Gcam", w[1], NoCap),
       Section("D1", w[2], "Alice"), Section("D2", w[3], n)>> :
        w \in {<<<<>>, <<>>, <<>>>>, <<<<1, 0>>, <<2>>, <<2>>>>},
        n \in DummyNames}

\* a process before bootstrap_mp has done anything; pc "off": no process
NewPeer(at) ==
    [pc |-> at, idx |-> 0, err |-> "none", my_assignment |-> <<>>,
     cap_tbl |-> [n \in RunCapNames |-> NoComp], keys |-> <<>>,
     remote_caps |-> <<>>, comps |-> <<>>, started |-> 0]

\* constants.py: the tag of a request; unique_tag starts its search here
TAG_REQ == 101
TAG_CONFIG == 100

\* a message of the transport: a request (capability, reqtag) sent with
\* tag TAG_REQ, or a response, the result sent with the tag of the request.
\* "by" names the fetch call the message belongs to (not part of the data)
NoThread == <<0, NoComp>>
NoMsg == [kind |-> "none", tag |-> 0, cap |-> NoCap, rtag |-> 0,
          val |-> NoVal, by |-> NoThread]

\* a component thread before run(); pc "off": not started.  locked: the
\* thread is inside the with block of run_component_wrapper and owns the
\* lock of its component's condition
NewThread ==
    [pc |-> "off", status |-> PENDING, locked |-> FALSE,
     res |-> [n \in RunCapNames |-> NoVal], k |-> 0,
     cap |-> NoCap, tag |-> 0, got |-> NoMsg]

\* RAB.__init__
NewRAB ==
    [pc |-> "off", src |-> 0, status |-> 0, terminate |-> FALSE,
     tags |-> {}, taglock |-> NoThread, outstanding |-> <<>>]

\* no thread has been started, no message sent
InitRuntime ==
    /\ thread = [r \in Ranks |-> [c \in RunComps |-> NewThread]]
    /\ rab = [r \in Ranks |-> NewRAB]
    /\ chan = [s \in Ranks |-> [d \in Ranks |-> <<>>]]
    /\ aborted = FALSE

\* the run is not a multi-process run: mp.py is not imported, there is no
\* world, no process of it, no RAB and no transport
MPOff ==
    /\ thread = <<>>
    /\ rab = <<>>
    /\ chan = <<>>
    /\ aborted = FALSE
    /\ config = <<>>
    /\ nproc = 0
    /\ assignments = <<>>
    /\ inbox = <<>>
    /\ gathered = <<>>
    /\ peer = <<>>

\* mpirun has started n processes on the configuration file
MPOn(n) ==
    /\ InitRuntime
    /\ nproc = n
    /\ assignments = <<>>
    /\ inbox = [r \in Ranks |-> <<>>]
    /\ gathered = [r \in Ranks |-> [done |-> FALSE, caps |-> <<>>]]
    /\ peer = [r \in Ranks |->
                IF r \notin World(n) THEN NewPeer("off")
                ELSE IF r = SUPERVISOR_RANK THEN NewPeer("distribute")
                ELSE NewPeer("recv")]

\* ------------------------------------------------------------------- Init
InitThreads ==
    /\ mainidx = 1
    /\ err = "none"
    /\ call = NoCall
    /\ cap_tbl = [n \in CapNames |-> NoComp]
    /\ name = [c \in Dummies |-> NoCap]
    /\ params = [c \in Comps |-> NoParams]
    /\ status = [c \in Comps |-> InitialStatus(c)]
    /\ results = [c \in Comps |-> [n \in CapNames |-> NoVal]]
    /\ lockOwner = [c \in Comps |-> NoComp]
    /\ lockCount = [c \in Comps |-> 0]
    /\ waiters = [c \in Comps |-> {}]
    /\ pc = [c \in Comps |-> "new"]
    /\ target = [c \in Comps |-> NoCap]
    /\ saved = [c \in Comps |-> 0]
    /\ fres = [c \in Comps |-> NoFetch]
    /\ nreq = [c \in Comps |-> 0]
    /\ outcome = [c \in Comps |-> "none"]
    /\ published = [c \in Comps |-> [n \in CapNames |-> NoVal]]
    /\ notified = [c \in Comps |-> 0]

\* a single-process run, before main has read the configuration
InitRun ==
    /\ mainpc = "config"
    /\ InitThreads
    /\ MPOff

\* any configuration file, any bodies
Init ==
    /\ sections \in ConfigFiles
    /\ deporder = <<>>
    /\ InitRun

\* the full configuration, acyclic requests, bodies that end by themselves
\* with a return of 0
InitAcyclic ==
    /\ sections = Sections
    /\ deporder \in AcyclicOrders
    /\ InitRun


\* a multi-process run: the single-process main does not exist
InitPeers ==
    /\ sections = <<>>
    /\ deporder = <<>>
    /\ mainpc = "mp"
    /\ InitThreads

\* the supervisor is given any configuration file, in a world of any size
InitAssign ==
    /\ InitPeers
    /\ config \in AssignConfigs
    /\ \E n \in 1..MaxPeers : MPOn(n)

\* a multi-process run on one of its configuration files
InitMP ==
    /\ InitPeers
    /\ config \in MPConfigs
    /\ \E n \in 1..MaxPeers : MPOn(n)

\* ------------------------------------------------------- the main thread

\* __init__ and finalize_parsing of the component of one section: the
\* addcapability / addresults calls they make, in order.  n is the name
\* parameter of a DummyComponent section, v the [Global] parameter object.
Construct(tbl, res, c, n, v) ==
    IF c = "Global"
    THEN LET a == addcapability(tbl, c, "general")
             r == addresults(a.tbl, res, c, "general", v)
         IN  IF a.raised # "none"
             THEN [raised |-> a.raised, tbl |-> a.tbl, res |-> res,
                   call |-> [op |-> "addcapability", comp |-> c,
                             cap |-> "general", val |-> NoVal,
                             raised |-> a.raised]]
             ELSE [raised |-> r.raised, tbl |-> a.tbl, res |-> r.res,
                   call |-> [op |-> "addresults", comp |-> c,
                             cap |-> "general", val |-> v,
                             raised |-> r.raised]]
    ELSE LET cap == IF c = "Gcam" THEN "gcam-core" ELSE n
             a == addcapability(tbl, c, cap)
         IN  [raised |-> a.raised, tbl |-> a.tbl, res |-> res,
              call |-> [op |-> "addcapability", comp |-> c,
                        cap |-> cap, val |-> NoVal, raised |-> a.raised]]

\* the sections of a configuration file, as a set
SectionSet(secs) == {secs[i] : i \in 1..Len(secs)}

\* bootstrap_sp: config["Global"] raises KeyError when the section is absent
HasGlobal(secs) == "Global" \in SectionSet(secs)

\* bootstrap_sp: the configuration is read and must have a [Global] section
BootstrapConfig ==
    /\ mainpc = "config"
    /\ IF HasGlobal(sections)
       THEN mainpc' = "bootstrap" /\ err' = err
       ELSE mainpc' = "failed" /\ err' = "NoGlobalSection"
    /\ call' = NoCall
    /\ UNCHANGED <<cfgvars, params, mainidx, cap_tbl, name, status,
                   results, lockvars, pc, fetchvars, outcome, published,
                   notified>>

\* a factory that builds a DummyComponent for a type it does not know
create_component_lenient(sec) ==
    IF sec \in RunComps
    THEN [raised |-> "none", comp |-> sec]
    ELSE [raised |-> "none", comp |-> "D2"]

\* compfactory.create_component: the component of a section, or a
\* RuntimeError for a type that is not in _available_components
create_component(sec) ==
    IF sec \in RunComps
    THEN [raised |-> "none", comp |-> sec]
    ELSE [raised |-> "UnknownComponent", comp |-> NoComp]

\* bootstrap_sp: a failed iteration raises out of bootstrap_sp and main
BootstrapRaise(e) ==
    /\ mainpc' = "failed"
    /\ err' = e
    /\ UNCHANGED <<mainidx, pc>>

\* bootstrap_sp: one iteration of the loop over the sections
BootstrapSection ==
    /\ mainpc = "bootstrap"
    /\ create_component(sections[mainidx]).raised = "none"
    /\ LET c == create_component(sections[mainidx]).comp IN
       \E n \in NameChoices(deporder, c) :
       \E conf \in SectionChoices(deporder, c, n) :
         LET v == ObjectOf(c)
             k == Construct(cap_tbl, results[c], c, n, v) IN
           /\ cap_tbl' = k.tbl
           /\ params' = [params EXCEPT ![c] = conf]
           /\ results' = [results EXCEPT ![c] = k.res]
           /\ call' = k.call
           /\ published' = IF c = "Global" /\ k.raised = "none"
                           THEN [published EXCEPT ![c]["general"] = v]
                           ELSE published
           /\ name' = IF c \in Dummies THEN [name EXCEPT ![c] = n] ELSE name
           /\ IF k.raised # "none"
              THEN BootstrapRaise(k.raised)
              ELSE /\ pc' = [pc EXCEPT ![c] = "idle"]
                   /\ err' = err
                   /\ IF mainidx = Len(sections)
                      THEN mainpc' = "start" /\ mainidx' = 1
                      ELSE mainpc' = "bootstrap" /\ mainidx' = mainidx + 1
    /\ UNCHANGED <<cfgvars, status, lockvars, fetchvars, outcome, notified>>

\* bootstrap_sp: the iteration for a section of an unknown type
BootstrapUnknown ==
    /\ mainpc = "bootstrap"
    /\ create_component(sections[mainidx]).raised # "none"
    /\ BootstrapRaise(create_component(sections[mainidx]).raised)
    /\ call' = NoCall
    /\ UNCHANGED <<cfgvars, params, cap_tbl, name, status, results,
                   lockvars, fetchvars, outcome, published, notified>>

\* test_add_cap.py: with the components constructed and finalized and none
\* started, the test calls addcapability on a component
TestAddCapability ==
    /\ mainpc = "start"
    /\ mainidx = 1
    /\ \E c \in Comps, cap \in CapNames :
         LET a == addcapability(cap_tbl, c, cap) IN
           /\ cap_tbl' = a.tbl
           /\ err' = a.raised
           /\ call' = [op |-> "addcapability", comp |-> c, cap |-> cap,
                       val |-> NoVal, raised |-> a.raised]
    /\ UNCHANGED <<cfgvars, params, mainpc, mainidx, name, status, results,
                   lockvars, pc, fetchvars, outcome, published, notified>>

\* test_add_cap.py: likewise, the test calls addresults on a component
TestAddResults ==
    /\ mainpc = "start"
    /\ mainidx = 1
    /\ \E c \in Comps, cap \in CapNames :
         LET v == ObjectOf(c)
             r == addresults(cap_tbl, results[c], c, cap, v) IN
           /\ results' = [results EXCEPT ![c] = r.res]
           /\ published' = IF r.raised = "none"
                           THEN [published EXCEPT ![c][cap] = v]
                           ELSE published
           /\ err' = r.raised
           /\ call' = [op |-> "addresults", comp |-> c, cap |-> cap,
                       val |-> v, raised |-> r.raised]
    /\ UNCHANGED <<cfgvars, params, mainpc, mainidx, cap_tbl, name, status,
                   lockvars, pc, fetchvars, outcome, notified>>

\* main: component.run() for the next component of component_list
MainStart ==
    /\ mainpc = "start"
    /\ LET c == sections[mainidx] IN
         pc' = [pc EXCEPT ![c] = "w_acquire"]
    /\ IF mainidx = Len(sections)
       THEN mainpc' = "join" /\ mainidx' = 1
       ELSE mainpc' = "start" /\ mainidx' = mainidx + 1
    /\ UNCHANGED <<cfgvars, params, err, call, cap_tbl, name, status,
                   results, lockvars, fetchvars, outcome, published,
                   notified>>

\* a join loop over threads[1:], as in the multi-process branch
MainJoin_skipfirst ==
    /\ mainpc = "join"
    /\ \A i \in 2..Len(sections) : pc[sections[i]] = "done"
    /\ mainpc' = "check"
    /\ mainidx' = 1
    /\ UNCHANGED <<cfgvars, params, err, call, cap_tbl, name, status,
                   results, lockvars, pc, fetchvars, outcome, published,
                   notified>>

\* main: the loop of thread.join() ends when every component thread has
MainJoin ==
    /\ mainpc = "join"
    /\ \A c \in SectionSet(sections) : pc[c] = "done"
    /\ mainpc' = "check"
    /\ mainidx' = 1
    /\ UNCHANGED <<cfgvars, params, err, call, cap_tbl, name, status,
                   results, lockvars, pc, fetchvars, outcome, published,
                   notified>>

\* main: the number of components whose status is not 1
NFail(secs, st) == Cardinality({c \in SectionSet(secs) : st[c] # SUCCESS})

\* main: count the failures; return 0 or raise
MainCheck ==
    /\ mainpc = "check"
    /\ IF NFail(sections, status) = 0
       THEN mainpc' = "done" /\ err' = err
       ELSE mainpc' = "failed" /\ err' = "ComponentsFailed"
    /\ UNCHANGED <<cfgvars, params, mainidx, call, cap_tbl, name, status,
                   results, lockvars, pc, fetchvars, outcome, published,
                   notified>>

\* --------------------------------------------------- run_component_wrapper

\* The locals of run_component (the request counter, the value fetched) are
\* gone once the body has ended
DropLocals(c) ==
    /\ nreq' = [nreq EXCEPT ![c] = 0]
    /\ fres' = [fres EXCEPT ![c] = NoFetch]
    /\ target' = [target EXCEPT ![c] = NoCap]

\* a wrapper that marks the component successful before it runs the body
WrapperAcquire_eager(c) ==
    /\ pc[c] = "w_acquire"
    /\ lockOwner[c] \in {NoComp, c}
    /\ lockOwner' = [lockOwner EXCEPT ![c] = c]
    /\ lockCount' = [lockCount EXCEPT ![c] = @ + 1]
    /\ pc' = [pc EXCEPT ![c] = "body"]
    /\ status' = [status EXCEPT ![c] = SUCCESS]
    /\ UNCHANGED <<cfgvars, params, mainvars, call, cap_tbl, name, results,
                   waiters, fetchvars, outcome, published, notified>>

\* with self.condition: acquire the (reentrant) lock of the own condition
WrapperAcquire(c) ==
    /\ pc[c] = "w_acquire"
    /\ lockOwner[c] \in {NoComp, c}
    /\ lockOwner' = [lockOwner EXCEPT ![c] = c]
    /\ lockCount' = [lockCount EXCEPT ![c] = @ + 1]
    /\ pc' = [pc EXCEPT ![c] = "body"]
    /\ UNCHANGED <<cfgvars, params, mainvars, call, cap_tbl, name, status,
                   results, waiters, fetchvars, outcome, published,
                   notified>>

\* self.status = 1, or self.status = 2 in the except clause
WrapperStatus(c) ==
    /\ pc[c] = "w_status"
    /\ status' = [status EXCEPT ![c] = StatusFor(outcome[c])]
    /\ pc' = [pc EXCEPT ![c] = "w_notify"]
    /\ DropLocals(c)
    /\ UNCHANGED <<cfgvars, params, mainvars, call, cap_tbl, name, results,
                   lockvars, saved, outcome, published, notified>>

\* a finally clause that calls notify(), waking at most one waiter
WrapperNotify_one(c) ==
    /\ pc[c] = "w_notify"
    /\ IF waiters[c] = {}
       THEN /\ pc' = [pc EXCEPT ![c] = "w_release"]
            /\ waiters' = waiters
       ELSE \E w \in waiters[c] :
            /\ waiters' = [waiters EXCEPT ![c] = @ \ {w}]
            /\ pc' = [pc EXCEPT ![c] = "w_release", ![w] = "f_reacq"]
    /\ notified' = [notified EXCEPT ![c] = @ + 1]
    /\ UNCHANGED <<cfgvars, params, mainvars, call, cap_tbl, name, status,
                   results, lockOwner, lockCount, fetchvars, outcome,
                   published>>

\* a finally clause that also sets the success status
WrapperNotify_status(c) ==
    /\ pc[c] = "w_notify"
    /\ waiters' = [waiters EXCEPT ![c] = {}]
    /\ pc' = [t \in Comps |->
                IF t = c THEN "w_release"
                ELSE IF t \in waiters[c] THEN "f_reacq"
                ELSE pc[t]]
    /\ notified' = [notified EXCEPT ![c] = @ + 1]
    /\ status' = [status EXCEPT ![c] = SUCCESS]
    /\ UNCHANGED <<cfgvars, params, mainvars, call, cap_tbl, name, results,
                   lockOwner, lockCount, fetchvars, outcome, published>>

\* finally: self.condition.notify_all()
WrapperNotify(c) ==
    /\ pc[c] = "w_notify"
    /\ IF NotifiesOn(outcome[c])
       THEN /\ waiters' = [waiters EXCEPT ![c] = {}]
            /\ pc' = [t \in Comps |->
                        IF t = c THEN "w_release"
                        ELSE IF t \in waiters[c] THEN "f_reacq"
                        ELSE pc[t]]
            /\ notified' = [notified EXCEPT ![c] = @ + 1]
       ELSE /\ pc' = [pc EXCEPT ![c] = "w_release"]
            /\ UNCHANGED <<waiters, notified>>
    /\ UNCHANGED <<cfgvars, params, mainvars, call, cap_tbl, name, status,
                   results, lockOwner, lockCount, fetchvars, outcome,
                   published>>

\* end of the with block: the lock is released, the thread ends; the
\* RuntimeError raised for a non-zero return value and the exception re-raised
\* by the except clause leave the wrapper, a return of 0 lets it return
WrapperRelease(c) ==
    /\ pc[c] = "w_release"
    /\ lockCount' = [lockCount EXCEPT ![c] = @ - 1]
    /\ lockOwner' = [lockOwner EXCEPT
                       ![c] = IF lockCount[c] = 1 THEN NoComp ELSE @]
    /\ pc' = [pc EXCEPT ![c] = "done"]
    /\ outcome' = [outcome EXCEPT
                     ![c] = IF @ = "ret0" THEN "returned" ELSE "raised"]
    /\ UNCHANGED <<cfgvars, params, mainvars, call, cap_tbl, name, status,
                   results, waiters, fetchvars, published, notified>>


\* ------------------------------------------------------ run_component bodies

\* The body ends: by a return of 0, a return of non-zero, or an exception
EndBody(c, out) ==
    /\ outcome' = [outcome EXCEPT ![c] = out]
    /\ pc' = [pc EXCEPT ![c] = "w_status"]

\* GlobalParamsComponent.run_component on genrslt = results['general'],
\* which is the params mapping itself (__init__ stores a reference): a
\* KeyError when ModelInterface is absent, else both entries are set to the
\* absolute paths util.abspath returns, inputdir from its default when absent
GlobalRun(par) ==
    IF par["ModelInterface"] = "absent"
    THEN [raised |-> "KeyError", par |-> par]
    ELSE [raised |-> "none",
          par |-> [par EXCEPT !["ModelInterface"] = "abs",
                              !["inputdir"] = "abs"]]

\* GlobalParamsComponent.run_component
GlobalBody(c) ==
    /\ c = "Global"
    /\ pc[c] = "body"
    /\ LET g == GlobalRun(params[c]) IN
         /\ params' = [params EXCEPT ![c] = g.par]
         /\ EndBody(c, IF g.raised = "none" THEN "ret0" ELSE "raise")
    /\ UNCHANGED <<cfgvars, mainvars, call, cap_tbl, name, status, results,
                   lockvars, fetchvars, published, notified>>

\* GcamComponent.run_component, by the path taken:
\*   "ioerror": an input file is missing, IOError;
\*   "skip":    the dbxml exists and clobber is off, return 0;
\*   "run0", "run1": addresults('gcam-core'), then the exit code of gcam.
GcamPaths == {"ioerror", "skip", "run0", "run1"}

\* the paths on which the body does not fail
GcamPathChoices(ord) ==
    IF ord = <<>> THEN GcamPaths ELSE {"skip", "run0"}

GcamPublishes(path) == path \in {"run0", "run1"}

GcamOutcome(path, raised) ==
    IF path = "ioerror" THEN "raise"
    ELSE IF path = "skip" THEN "ret0"
    ELSE IF raised # "none" THEN "raise"
    ELSE IF path = "run0" THEN "ret0" ELSE "retnz"

GcamBody(c) ==
    /\ c = "Gcam"
    /\ pc[c] = "body"
    /\ \E path \in GcamPathChoices(deporder) :
         LET v == ObjectOf(c)
             r == IF GcamPublishes(path)
                  THEN addresults(cap_tbl, results[c], c, "gcam-core", v)
                  ELSE [raised |-> "none", res |-> results[c]]
         IN  /\ results' = [results EXCEPT ![c] = r.res]
             /\ published' = IF GcamPublishes(path) /\ r.raised = "none"
                             THEN [published EXCEPT ![c]["gcam-core"] = v]
                             ELSE published
             /\ EndBody(c, GcamOutcome(path, r.raised))
    /\ UNCHANGED <<cfgvars, params, mainvars, call, cap_tbl, name, status,
                   lockvars, fetchvars, notified>>

\* DummyComponent.run_component, after the requests: addresults(self.name),
\* then raise if the section has an 'except' parameter, else return 0
DummyOutcome(raised, except) ==
    IF raised # "none" \/ except THEN "raise" ELSE "ret0"

DummyFinish(c) ==
    /\ c \in Dummies
    /\ pc[c] = "body"
    /\ \E except \in ExceptChoices(deporder) :
         LET v == ObjectOf(c)
             r == addresults(cap_tbl, results[c], c, name[c], v) IN
           /\ results' = [results EXCEPT ![c] = r.res]
           /\ published' = IF r.raised = "none"
                           THEN [published EXCEPT ![c][name[c]] = v]
                           ELSE published
           /\ EndBody(c, DummyOutcome(r.raised, except))
    /\ UNCHANGED <<cfgvars, params, mainvars, call, cap_tbl, name, status,
                   lockvars, fetchvars, notified>>

\* ------------------------------------------------------ ComponentBase.fetch

\* A fetch that raises ends the body of a DummyComponent (it catches nothing)
FetchEnds(t, r) ==
    /\ fres' = [fres EXCEPT ![t] = r]
    /\ IF r.kind = "value"
       THEN pc' = [pc EXCEPT ![t] = "body"] /\ outcome' = outcome
       ELSE EndBody(t, "raise")

\* DummyComponent.run_component: self.fetch(req) for the next request; the
\* lookup in the capability table, forwarded to the provider
FetchBegin(t) ==
    /\ t \in Dummies
    /\ pc[t] = "body"
    /\ nreq[t] < MaxReqs
    /\ \E cap \in ReqChoices(deporder, cap_tbl, t) :
         LET l == Lookup(cap_tbl, cap) IN
           /\ nreq' = [nreq EXCEPT ![t] = @ + 1]
           /\ target' = [target EXCEPT ![t] = cap]
           /\ IF l.raised # "none"
              THEN FetchEnds(t, [kind |-> l.raised, cap |-> cap,
                                 val |-> NoVal])
              ELSE /\ pc' = [pc EXCEPT ![t] = "f_lock"]
                   /\ UNCHANGED <<fres, outcome>>
    /\ UNCHANGED <<cfgvars, params, mainvars, call, cap_tbl, name, status,
                   results, lockvars, saved, published, notified>>

\* the provider of the capability thread t is fetching
Provider(t) == Lookup(cap_tbl, target[t]).provider

\* a fetch that enters the with block without waiting for the lock
FetchLock_barge(t) ==
    /\ pc[t] = "f_lock"
    /\ LET p == Provider(t) IN
         /\ lockOwner' = [lockOwner EXCEPT ![p] = t]
         /\ lockCount' = [lockCount EXCEPT ![p] = 1]
    /\ pc' = [pc EXCEPT ![t] = "f_check"]
    /\ UNCHANGED <<cfgvars, params, mainvars, call, cap_tbl, name, status,
                   results, waiters, fetchvars, outcome, published,
                   notified>>

\* with self.condition: acquire the provider's lock
FetchLock(t) ==
    /\ pc[t] = "f_lock"
    /\ LET p == Provider(t) IN
         /\ lockOwner[p] \in {NoComp, t}
         /\ lockOwner' = [lockOwner EXCEPT ![p] = t]
         /\ lockCount' = [lockCount EXCEPT ![p] = @ + 1]
    /\ pc' = [pc EXCEPT ![t] = "f_check"]
    /\ UNCHANGED <<cfgvars, params, mainvars, call, cap_tbl, name, status,
                   results, waiters, fetchvars, outcome, published,
                   notified>>

\* if self.status == 0: self.condition.wait(), which releases the lock at
\* every recursion level; otherwise the with block is left
FetchCheck(t) ==
    /\ pc[t] = "f_check"
    /\ LET p == Provider(t) IN
         IF MustWait(status[p])
         THEN /\ saved' = [saved EXCEPT ![t] = lockCount[p]]
              /\ lockOwner' = [lockOwner EXCEPT ![p] = NoComp]
              /\ lockCount' = [lockCount EXCEPT ![p] = 0]
              /\ waiters' = [waiters EXCEPT ![p] = @ \cup {t}]
              /\ pc' = [pc EXCEPT ![t] = "f_wait"]
         ELSE /\ lockCount' = [lockCount EXCEPT ![p] = @ - 1]
              /\ lockOwner' = [lockOwner EXCEPT
                                 ![p] = IF lockCount[p] = 1 THEN NoComp ELSE @]
              /\ pc' = [pc EXCEPT ![t] = "f_read"]
              /\ UNCHANGED <<saved, waiters>>
    /\ UNCHANGED <<cfgvars, params, mainvars, call, cap_tbl, name, status,
                   results, target, fres, nreq, outcome, published,
                   notified>>

\* wait() returns: the notified thread takes the lock back at the saved
\* recursion level, and the with block is left
FetchReacquire(t) ==
    /\ pc[t] = "f_reacq"
    /\ LET p == Provider(t) IN
         /\ lockOwner[p] = NoComp
         /\ lockCount' = [lockCount EXCEPT ![p] = saved[t] - 1]
         /\ lockOwner' = [lockOwner EXCEPT
                            ![p] = IF saved[t] = 1 THEN NoComp ELSE t]
    /\ saved' = [saved EXCEPT ![t] = 0]
    /\ pc' = [pc EXCEPT ![t] = "f_read"]
    /\ UNCHANGED <<cfgvars, params, mainvars, call, cap_tbl, name, status,
                   results, waiters, target, fres, nreq, outcome, published,
                   notified>>

\* after the with block: raise unless status is 1, else results[capability]
FetchRead(t) ==
    /\ pc[t] = "f_read"
    /\ LET p == Provider(t) IN
         FetchEnds(t, ReadResult(status[p], results[p], target[t]))
    /\ UNCHANGED <<cfgvars, params, mainvars, call, cap_tbl, name, status,
                   results, lockvars, target, saved, nreq, published,
                   notified>>

\* ------------------------------------------------------------------- Next
Next ==
    \/ BootstrapConfig
    \/ BootstrapSection
    \/ BootstrapUnknown
    \/ MainStart
    \/ MainJoin
    \/ MainCheck
    \/ \E c \in Comps : WrapperAcquire(c)
    \/ \E c \in Comps : GlobalBody(c)
    \/ \E c \in Comps : GcamBody(c)
    \/ \E c \in Comps : DummyFinish(c)
    \/ \E c \in Comps : FetchBegin(c)
    \/ \E c \in Comps : FetchLock(c)
    \/ \E c \in Comps : FetchCheck(c)
    \/ \E c \in Comps : FetchReacquire(c)
    \/ \E c \in Comps : FetchRead(c)
    \/ \E c \in Comps : WrapperStatus(c)
    \/ \E c \in Comps : WrapperNotify(c)
    \/ \E c \in Comps : WrapperRelease(c)

Spec == Init /\ [][Next]_vars

\* The unit tests of test_add_cap.py: bootstrap, then direct calls
NextHarness ==
    \/ BootstrapConfig
    \/ BootstrapSection
    \/ TestAddCapability
    \/ TestAddResults

\* the fixture of the tests: every section, valid parameters
InitHarness ==
    /\ sections = Sections
    /\ deporder \in {ord \in AcyclicOrders : ord[1] = "D1"}
    /\ InitRun

SpecHarness == InitHarness /\ [][NextHarness]_vars

TypeOK ==
    /\ mainpc \in {"mp", "config", "bootstrap", "start", "join", "check",
                   "done", "failed"}
    /\ \A c \in Comps : status[c] \in {PENDING, SUCCESS, FAILURE}
    /\ \A c \in Comps : lockCount[c] \in 0..2
    /\ \A c \in Comps : (lockOwner[c] = NoComp) <=> (lockCount[c] = 0)


\* ----------------------------------------------------------- scheduling
\* Every started thread that can take a step eventually takes one.
ThreadStep(c) ==
    \/ WrapperAcquire(c) \/ GlobalBody(c) \/ GcamBody(c) \/ DummyFinish(c)
    \/ FetchBegin(c) \/ FetchLock(c) \/ FetchCheck(c) \/ FetchReacquire(c)
    \/ FetchRead(c) \/ WrapperStatus(c) \/ WrapperNotify(c)
    \/ WrapperRelease(c)

MainStep ==
    \/ BootstrapConfig \/ BootstrapSection \/ BootstrapUnknown
    \/ MainStart \/ MainJoin \/ MainCheck

FairSpec ==
    Spec /\ WF_vars(MainStep) /\ \A c \in Comps : WF_vars(ThreadStep(c))

\* The runs of test_blocking.py: a valid configuration, acyclic requests
NextAcyclic ==
    \/ BootstrapConfig
    \/ BootstrapSection
    \/ MainStart
    \/ MainJoin
    \/ MainCheck
    \/ \E c \in Comps : WrapperAcquire(c)
    \/ \E c \in Comps : GlobalBody(c)
    \/ \E c \in Comps : GcamBody(c)
    \/ \E c \in Comps : DummyFinish(c)
    \/ \E c \in Comps : FetchBegin(c)
    \/ \E c \in Comps : FetchLock(c)
    \/ \E c \in Comps : FetchCheck(c)
    \/ \E c \in Comps : FetchReacquire(c)
    \/ \E c \in Comps : FetchRead(c)
    \/ \E c \in Comps : WrapperStatus(c)
    \/ \E c \in Comps : WrapperNotify(c)
    \/ \E c \in Comps : WrapperRelease(c)

SpecAcyclic ==
    /\ InitAcyclic /\ [][NextAcyclic]_vars
    /\ WF_vars(MainStep) /\ \A c \in Comps : WF_vars(ThreadStep(c))

\* The configuration files of the runs that are followed to their end:
\* those above that give no weights, and one that puts both DummyComponent
\* sections on rank 1 of a world of two
RunConfigs ==
    {cfg \in MPConfigs : \A i \in DOMAIN cfg : cfg[i].weight = <<>>} \cup
    {<<GlobalSection, Section("D1", <<>>, "Alice"),
       Section("Gcam", <<>>, NoCap), Section("D2", <<>>, "Bob")>>}

\* a multi-process run that is followed from mpirun to its end
InitMPRun ==
    /\ InitPeers
    /\ config \in RunConfigs
    /\ \E n \in 1..MaxRunPeers : MPOn(n)

\* ------------------------------------ distribute_assignments_supervisor

\* the component sections of a configuration, in file order
ComponentSections(cfg) == SelectSeq(cfg, LAMBDA x : x.sec # "Global")

\* config[s].get('mp.weight', 1.0): the string of the file, which nothing
\* converts to a number, or the float 1.0
WeightKey(w) ==
    IF w = <<>> THEN [type |-> "float", chars |-> <<>>]
    ELSE [type |-> "str", chars |-> w]

\* a < b for two strings of digits: the order of Python's str
RECURSIVE StrLess(_, _)
StrLess(a, b) ==
    IF a = <<>> THEN b # <<>>
    ELSE IF b = <<>> THEN FALSE
    ELSE IF Head(a) # Head(b) THEN Head(a) < Head(b)
    ELSE StrLess(Tail(a), Tail(b))

\* x < y for two sort keys of the same type; every float key is 1.0
KeyLess(x, y) == x.type = "str" /\ StrLess(x.chars, y.chars)

\* sorted() compares a str with a float, which raises TypeError
MixedKeys(secs) ==
    \E i \in DOMAIN secs : \E j \in DOMAIN secs :
        WeightKey(secs[i].weight).type # WeightKey(secs[j].weight).type

\* e inserted into the descending list L, after the elements not below it
RECURSIVE InsertDesc(_, _)
InsertDesc(e, L) ==
    IF L = <<>> THEN <<e>>
    ELSE IF KeyLess(WeightKey(Head(L).weight), WeightKey(e.weight))
    THEN <<e>> \o L
    ELSE <<Head(L)>> \o InsertDesc(e, Tail(L))

\* sorted(name_weight, key=lambda x:x[1], reverse=True): stable, descending
RECURSIVE SortedByWeight(_)
SortedByWeight(secs) ==
    IF secs = <<>> THEN <<>>
    ELSE InsertDesc(secs[Len(secs)],
                    SortedByWeight(SubSeq(secs, 1, Len(secs) - 1)))

\* the loop over section_names: the next section goes to nextrank
RECURSIVE RoundRobin(_, _, _, _)
RoundRobin(secs, n, nextrank, asg) ==
    IF secs = <<>> THEN asg
    ELSE RoundRobin(Tail(secs), n, (nextrank + 1) % n,
                    [asg EXCEPT ![nextrank] = Append(@, Head(secs))])

\* distribute_assignments_supervisor: the list of assignments, or the
\* exception raised
distribute_assignments_supervisor(cfg, n) ==
    LET secs == ComponentSections(cfg)
        glob == SelectSeq(cfg, LAMBDA x : x.sec = "Global")
    IN  IF glob = <<>>
        THEN [raised |-> "NoGlobalSection", asg |-> <<>>]
        ELSE IF MixedKeys(secs)
        THEN [raised |-> "TypeError", asg |-> <<>>]
        ELSE [raised |-> "none",
              asg |-> RoundRobin(SortedByWeight(secs), n,
                                 (SUPERVISOR_RANK + 1) % n,
                                 [r \in World(n) |-> <<glob[1]>>])]

\* bootstrap_mp on the supervisor: the assignments are computed and sent
DistributeSupervisor ==
    /\ ~aborted
    /\ peer[SUPERVISOR_RANK].pc = "distribute"
    /\ LET d == distribute_assignments_supervisor(config, nproc) IN
         IF d.raised # "none"
         THEN /\ peer' = [peer EXCEPT ![SUPERVISOR_RANK].pc = "failed",
                                      ![SUPERVISOR_RANK].err = d.raised]
              /\ UNCHANGED <<assignments, inbox>>
         ELSE /\ assignments' = d.asg
              /\ inbox' = [r \in Ranks |->
                             IF r \in World(nproc) /\ r # SUPERVISOR_RANK
                             THEN <<d.asg[r]>> ELSE <<>>]
              /\ peer' = [peer EXCEPT
                    ![SUPERVISOR_RANK].pc = "create",
                    ![SUPERVISOR_RANK].idx = 1,
                    ![SUPERVISOR_RANK].my_assignment = d.asg[SUPERVISOR_RANK],
                    ![SUPERVISOR_RANK].comps = <<"RAB">>]
    /\ UNCHANGED <<spvars, rtvars, config, nproc, gathered>>

\* bootstrap_mp on a worker: distribute_assignments_worker receives
PeerRecv(r) ==
    /\ ~aborted
    /\ r \in World(nproc) \ {SUPERVISOR_RANK}
    /\ peer[r].pc = "recv"
    /\ inbox[r] # <<>>
    /\ peer' = [peer EXCEPT ![r].pc = "create",
                            ![r].idx = 1,
                            ![r].my_assignment = Head(inbox[r]),
                            ![r].comps = <<"RAB">>]
    /\ inbox' = [inbox EXCEPT ![r] = Tail(@)]
    /\ UNCHANGED <<spvars, rtvars, config, nproc, assignments, gathered>>

\* the supervisor and the workers, up to the point each has its assignment
NextAssign ==
    \/ DistributeSupervisor
    \/ \E r \in Ranks : PeerRecv(r)

SpecAssign == InitAssign /\ [][NextAssign]_vars

\* ----------------------------------------------------------- bootstrap_mp

\* the capability the component of a section registers when it is built
CapabilityOf(x) ==
    IF x.sec = "Global" THEN "general"
    ELSE IF x.sec = "Gcam" THEN "gcam-core"
    ELSE x.name

\* addremote without the duplicate check: the later rank wins
RECURSIVE addremote_overwrite(_, _, _, _, _)
addremote_overwrite(tbl, rc, keys, rank, caps) ==
    IF caps = <<>>
    THEN [raised |-> "none", tbl |-> tbl, rc |-> rc, keys |-> keys]
    ELSE addremote_overwrite([tbl EXCEPT ![Head(caps)] = "RAB"],
                             (Head(caps) :> rank) @@ rc,
                             Append(keys, Head(caps)), rank, Tail(caps))

\* RAB.addremote: every capability of the remote list is entered in the
\* capability table as the RAB's and in remote_caps with the remote rank;
\* a name already in the table raises, leaving the entries made so far
RECURSIVE addremote(_, _, _, _, _)
addremote(tbl, rc, keys, rank, caps) ==
    IF caps = <<>>
    THEN [raised |-> "none", tbl |-> tbl, rc |-> rc, keys |-> keys]
    ELSE IF InTable(tbl, Head(caps))
    THEN [raised |-> "DuplicateCapability", tbl |-> tbl, rc |-> rc,
          keys |-> keys]
    ELSE addremote([tbl EXCEPT ![Head(caps)] = "RAB"],
                   (Head(caps) :> rank) @@ rc,
                   Append(keys, Head(caps)), rank, Tail(caps))

\* bootstrap_mp: one iteration of the loop over my_assignment
PeerCreate(r) ==
    /\ ~aborted
    /\ peer[r].pc = "create"
    /\ LET x == peer[r].my_assignment[peer[r].idx]
           f == create_component(x.sec)
           a == addcapability(peer[r].cap_tbl, x.sec, CapabilityOf(x))
       IN  IF f.raised # "none" \/ a.raised # "none"
           THEN peer' = [peer EXCEPT
                  ![r].pc = "failed",
                  ![r].err = IF f.raised # "none" THEN f.raised
                             ELSE a.raised]
           ELSE peer' = [peer EXCEPT
                  ![r].cap_tbl = a.tbl,
                  ![r].keys = Append(@, CapabilityOf(x)),
                  ![r].comps = Append(@, x.sec),
                  ![r].idx = @ + 1,
                  ![r].pc = IF peer[r].idx = Len(peer[r].my_assignment)
                            THEN "gather" ELSE "create"]
    /\ UNCHANGED <<spvars, rtvars, config, nproc, assignments, inbox,
                   gathered>>

\* bootstrap_mp: the names of the local capabilities, without 'general',
\* are handed to world.allgather
PeerGather(r) ==
    /\ ~aborted
    /\ peer[r].pc = "gather"
    /\ gathered' = [gathered EXCEPT ![r] =
          [done |-> TRUE,
           caps |-> SelectSeq(peer[r].keys, LAMBDA n : n # "general")]]
    /\ peer' = [peer EXCEPT ![r].pc = "gathered"]
    /\ UNCHANGED <<spvars, rtvars, config, nproc, assignments, inbox>>

\* a bootstrap that starts the RAB as soon as allgather has returned
PeerGatherReturn_startrab(r) ==
    /\ ~aborted
    /\ peer[r].pc = "gathered"
    /\ \A q \in World(nproc) : gathered[q].done
    /\ peer' = [peer EXCEPT ![r].pc = "addremote", ![r].idx = 0,
                            ![r].started = 1]
    /\ UNCHANGED <<spvars, rtvars, config, nproc, assignments, inbox,
                   gathered>>

\* world.allgather returns once every rank has contributed
PeerGatherReturn(r) ==
    /\ ~aborted
    /\ peer[r].pc = "gathered"
    /\ \A q \in World(nproc) : gathered[q].done
    /\ peer' = [peer EXCEPT ![r].pc = "addremote", ![r].idx = 0]
    /\ UNCHANGED <<spvars, rtvars, config, nproc, assignments, inbox,
                   gathered>>

\* bootstrap_mp: one iteration of the loop over allcaptbls; the own
\* contribution is skipped, the others go to rab.addremote
PeerAddRemote(r) ==
    /\ ~aborted
    /\ peer[r].pc = "addremote"
    /\ LET i == peer[r].idx
           a == IF i = r
                THEN [raised |-> "none", tbl |-> peer[r].cap_tbl,
                      rc |-> peer[r].remote_caps, keys |-> peer[r].keys]
                ELSE addremote(peer[r].cap_tbl, peer[r].remote_caps,
                               peer[r].keys, i, gathered[i].caps)
       IN  peer' = [peer EXCEPT
             ![r].cap_tbl = a.tbl,
             ![r].remote_caps = a.rc,
             ![r].keys = a.keys,
             ![r].err = a.raised,
             ![r].idx = IF a.raised # "none" \/ i = nproc - 1
                        THEN 1 ELSE i + 1,
             ![r].pc = IF a.raised # "none" THEN "failed"
                       ELSE IF i = nproc - 1 THEN "start"
                       ELSE "addremote"]
    /\ UNCHANGED <<spvars, rtvars, config, nproc, assignments, inbox,
                   gathered>>

\* main that starts the entries of the list from its end, the RAB last
PeerStart_rablast(r) ==
    /\ ~aborted
    /\ peer[r].pc = "start"
    /\ LET x == peer[r].comps[Len(peer[r].comps) + 1 - peer[r].idx] IN
         IF x = "RAB"
         THEN /\ rab' = [rab EXCEPT ![r].pc = "probe"]
              /\ UNCHANGED thread
         ELSE /\ thread' = [thread EXCEPT ![r][x].pc = "body",
                                          ![r][x].locked = TRUE]
              /\ UNCHANGED rab
    /\ peer' = [peer EXCEPT
          ![r].started = peer[r].idx,
          ![r].idx = IF @ = Len(peer[r].comps) THEN @ ELSE @ + 1,
          ![r].pc = IF peer[r].idx = Len(peer[r].comps)
                    THEN "running" ELSE "start"]
    /\ UNCHANGED <<spvars, chan, aborted, config, nproc, assignments,
                   inbox, gathered>>

\* main: component.run() for the next entry of the list bootstrap_mp
\* returned, the RAB first; run() returns once the thread has been started.
\* The thread of a component enters the with block of run_component_wrapper
\* and calls the body
PeerStart(r) ==
    /\ ~aborted
    /\ peer[r].pc = "start"
    /\ LET x == peer[r].comps[peer[r].idx] IN
         IF x = "RAB"
         THEN /\ rab' = [rab EXCEPT ![r].pc = "probe"]
              /\ UNCHANGED thread
         ELSE /\ thread' = [thread EXCEPT ![r][x].pc = "body",
                                          ![r][x].locked = TRUE]
              /\ UNCHANGED rab
    /\ peer' = [peer EXCEPT
          ![r].started = peer[r].idx,
          ![r].idx = IF @ = Len(peer[r].comps) THEN @ ELSE @ + 1,
          ![r].pc = IF peer[r].idx = Len(peer[r].comps)
                    THEN "running" ELSE "start"]
    /\ UNCHANGED <<spvars, chan, aborted, config, nproc, assignments,
                   inbox, gathered>>

NextMP ==
    \/ DistributeSupervisor
    \/ \E r \in Ranks : PeerRecv(r)
    \/ \E r \in Ranks : PeerCreate(r)
    \/ \E r \in Ranks : PeerGather(r)
    \/ \E r \in Ranks : PeerGatherReturn(r)
    \/ \E r \in Ranks : PeerAddRemote(r)
    \/ \E r \in Ranks : PeerStart(r)

SpecMP == InitMP /\ [][NextMP]_vars

\* main, with or without --mp: the steps of bootstrap_mp exist only in a
\* world
NextMain == Next \/ (nproc > 0 /\ NextMP)

SpecMain == (Init \/ InitMP) /\ [][NextMain]_vars

\* ------------------------------------------------- the multi-process run

\* the components of rank r: the list bootstrap_mp returned, without the RAB
LocalComps(r) ==
    {peer[r].comps[i] : i \in 2..Len(peer[r].comps)}

\* the section that registers the capability cap, on whatever rank
OwnerSection(cap) ==
    CHOOSE c \in RunComps \cup {NoComp} :
        \/ /\ c # NoComp
           /\ \E i \in DOMAIN config :
                config[i].sec = c /\ CapabilityOf(config[i]) = cap
        \/ /\ c = NoComp
           /\ \A i \in DOMAIN config : CapabilityOf(config[i]) # cap

\* capability_reqs: the capabilities the body of component c on rank r can
\* request, those of the other component sections; under an order, those
\* of the sections later in the order
MPReqChoices(ord, r, c) ==
    {cap \in RunCapNames \ {"general"} :
        /\ InTable(peer[r].cap_tbl, cap)
        /\ peer[r].cap_tbl[cap] # c
        /\ ord # <<>> => PosIn(ord, c) < PosIn(ord, OwnerSection(cap))}

\* position of the first message with the given tag in a queue, 0 if none
RECURSIVE FirstWithTag(_, _)
FirstWithTag(q, tag) ==
    IF q = <<>> THEN 0
    ELSE IF Head(q).tag = tag THEN 1
    ELSE LET i == FirstWithTag(Tail(q), tag) IN
           IF i = 0 THEN 0 ELSE i + 1

\* the queue without its i-th message
RemoveAt(q, i) == SubSeq(q, 1, i - 1) \o SubSeq(q, i + 1, Len(q))

\* run_component_wrapper after a body that raised: status 2, waiters notified
BodyRaises(r, c) ==
    thread' = [thread EXCEPT ![r][c].pc = "done", ![r][c].cap = NoCap,
                             ![r][c].k = 0,
                             ![r][c].locked = FALSE,
                             ![r][c].status = FAILURE]

\* GlobalParamsComponent on rank r: the whole thread, wrapper and body
GlobalThread(r) ==
    /\ ~aborted
    /\ thread[r]["Global"].pc = "body"
    /\ thread' = [thread EXCEPT
          ![r]["Global"].pc = "done",
          ![r]["Global"].locked = FALSE,
          ![r]["Global"].status = StatusFor("ret0"),
          ![r]["Global"].res = [@ EXCEPT !["general"] = ObjectOf("Global")]]
    /\ UNCHANGED <<spvars, config, nproc, assignments, inbox, gathered,
                   peer, rab, chan, aborted>>

\* GcamComponent on rank r: the whole thread, wrapper and body
GcamThread(r) ==
    /\ ~aborted
    /\ thread[r]["Gcam"].pc = "body"
    /\ \E path \in GcamPathChoices(deporder) :
         LET a == IF GcamPublishes(path)
                  THEN addresults(peer[r].cap_tbl, thread[r]["Gcam"].res,
                                  "Gcam", "gcam-core", ObjectOf("Gcam"))
                  ELSE [raised |-> "none", res |-> thread[r]["Gcam"].res]
         IN  thread' = [thread EXCEPT
               ![r]["Gcam"].pc = "done",
               ![r]["Gcam"].locked = FALSE,
               ![r]["Gcam"].res = a.res,
               ![r]["Gcam"].status = StatusFor(GcamOutcome(path, a.raised))]
    /\ UNCHANGED <<spvars, config, nproc, assignments, inbox, gathered,
                   peer, rab, chan, aborted>>

\* DummyComponent.run_component: self.fetch(req) for the next request, up
\* to the lookup; a local provider is waited for, the RAB is asked to fetch
DummyFetch(r, c) ==
    /\ ~aborted
    /\ c \in RunDummies
    /\ thread[r][c].pc = "body"
    /\ thread[r][c].k < MaxRunReqs
    /\ \E cap \in MPReqChoices(deporder, r, c) :
         LET l == Lookup(peer[r].cap_tbl, cap) IN
           IF l.raised # "none"
           THEN BodyRaises(r, c)
           ELSE thread' = [thread EXCEPT
                  ![r][c].k = @ + 1,
                  ![r][c].cap = cap,
                  ![r][c].pc = IF l.provider = "RAB" THEN "tag"
                               ELSE "wait"]
    /\ UNCHANGED <<spvars, config, nproc, assignments, inbox, gathered,
                   peer, rab, chan, aborted>>

\* ComponentBase.fetch on a provider of the same rank: returns once the
\* provider has run, with its result or with an exception
FetchLocal(r, c) ==
    /\ ~aborted
    /\ thread[r][c].pc = "wait"
    /\ LET p == peer[r].cap_tbl[thread[r][c].cap] IN
         /\ ~MustWait(thread[r][p].status)
         /\ LET v == ReadResult(thread[r][p].status, thread[r][p].res,
                                thread[r][c].cap) IN
              IF v.kind = "value"
              THEN thread' = [thread EXCEPT ![r][c].pc = "body",
                                            ![r][c].cap = NoCap]
              ELSE BodyRaises(r, c)
    /\ UNCHANGED <<spvars, config, nproc, assignments, inbox, gathered,
                   peer, rab, chan, aborted>>

\* the lowest tag from TAG_REQ on that is not in the set
RECURSIVE FreeTag(_, _)
FreeTag(tags, tag) == IF tag \in tags THEN FreeTag(tags, tag + 1) ELSE tag

\* unique_tag without the lock: the search starts at once
UniqueTagSearch_nolock(r, c) ==
    /\ ~aborted
    /\ thread[r][c].pc = "tag"
    /\ thread' = [thread EXCEPT ![r][c].pc = "tagged",
                     ![r][c].tag = FreeTag(rab[r].tags, TAG_REQ)]
    /\ UNCHANGED <<spvars, config, nproc, assignments, inbox, gathered,
                   peer, rab, chan, aborted>>

\* RAB.unique_tag: with self.taglock, the search for a tag not in use
UniqueTagSearch(r, c) ==
    /\ ~aborted
    /\ thread[r][c].pc = "tag"
    /\ rab[r].taglock = NoThread
    /\ rab' = [rab EXCEPT ![r].taglock = <<r, c>>]
    /\ thread' = [thread EXCEPT ![r][c].pc = "tagged",
                     ![r][c].tag = FreeTag(rab[r].tags, TAG_REQ)]
    /\ UNCHANGED <<spvars, config, nproc, assignments, inbox, gathered,
                   peer, chan, aborted>>

\* a unique_tag that returns without releasing the lock
FetchSend_keeplock(r, c) ==
    /\ ~aborted
    /\ thread[r][c].pc = "tagged"
    /\ LET t == thread[r][c]
           d == peer[r].remote_caps[t.cap]
       IN  /\ rab' = [rab EXCEPT ![r].tags = @ \cup {t.tag}]
           /\ chan' = [chan EXCEPT ![r][d] =
                 Append(@, [kind |-> "req", tag |-> TAG_REQ, cap |-> t.cap,
                            rtag |-> t.tag, val |-> NoVal,
                            by |-> <<r, c>>])]
    /\ thread' = [thread EXCEPT ![r][c].pc = "recv"]
    /\ UNCHANGED <<spvars, config, nproc, assignments, inbox, gathered,
                   peer, aborted>>

\* RAB.unique_tag: self.tags.add(tag), the lock is released; RAB.fetch
\* sends (capability, reqtag) with tag TAG_REQ to the rank of the provider
FetchSend(r, c) ==
    /\ ~aborted
    /\ thread[r][c].pc = "tagged"
    /\ LET t == thread[r][c]
           d == peer[r].remote_caps[t.cap]
       IN  /\ rab' = [rab EXCEPT ![r].tags = @ \cup {t.tag},
                                 ![r].taglock = NoThread]
           /\ chan' = [chan EXCEPT ![r][d] =
                 Append(@, [kind |-> "req", tag |-> TAG_REQ, cap |-> t.cap,
                            rtag |-> t.tag, val |-> NoVal,
                            by |-> <<r, c>>])]
    /\ thread' = [thread EXCEPT ![r][c].pc = "recv"]
    /\ UNCHANGED <<spvars, config, nproc, assignments, inbox, gathered,
                   peer, aborted>>

\* RAB.fetch: comm.recv(source=provider_rank, tag=reqtag) returns the first
\* message of that rank with that tag; fetch returns it to the body, which
\* does not look at it
FetchRecv(r, c) ==
    /\ ~aborted
    /\ thread[r][c].pc = "recv"
    /\ LET t == thread[r][c]
           s == peer[r].remote_caps[t.cap]
           i == FirstWithTag(chan[s][r], t.tag)
       IN  /\ i # 0
           /\ thread' = [thread EXCEPT ![r][c].pc = "body",
                                       ![r][c].cap = NoCap,
                                       ![r][c].tag = 0,
                                       ![r][c].got = chan[s][r][i]]
           /\ chan' = [chan EXCEPT ![s][r] = RemoveAt(@, i)]
    /\ UNCHANGED <<spvars, config, nproc, assignments, inbox, gathered,
                   peer, rab, aborted>>

\* DummyComponent.run_component after the requests: addresults(self.name),
\* then raise if the section has an 'except' parameter, else return 0
DummyEnd(r, c) ==
    /\ ~aborted
    /\ c \in RunDummies
    /\ thread[r][c].pc = "body"
    /\ \E except \in ExceptChoices(deporder) :
         LET x == CHOOSE y \in {peer[r].my_assignment[i] :
                                  i \in DOMAIN peer[r].my_assignment} :
                     y.sec = c
             a == addresults(peer[r].cap_tbl, thread[r][c].res, c,
                             CapabilityOf(x), ObjectOf(c))
         IN  thread' = [thread EXCEPT
               ![r][c].pc = "done",
               ![r][c].k = 0,
               ![r][c].locked = FALSE,
               ![r][c].res = a.res,
               ![r][c].status = StatusFor(DummyOutcome(a.raised, except))]
    /\ UNCHANGED <<spvars, config, nproc, assignments, inbox, gathered,
                   peer, rab, chan, aborted>>

\* RAB.process_incoming: comm.iprobe(tag=TAG_REQ) finds a message with the
\* tag of a request, from the rank it reports as the source
ProcessIncomingProbe(r) ==
    /\ ~aborted
    /\ rab[r].pc = "probe"
    /\ \E s \in World(nproc) :
         /\ FirstWithTag(chan[s][r], TAG_REQ) # 0
         /\ rab' = [rab EXCEPT ![r].pc = "recv", ![r].src = s]
    /\ UNCHANGED <<spvars, config, nproc, assignments, inbox, gathered,
                   peer, thread, chan, aborted>>

\* RAB.process_incoming: comm.recv(source=source) takes the next message of
\* that rank, whatever its tag.  A request is handed to a worker
\* (executor.submit) and entered in requests_outstanding; anything else
\* makes the listener raise: the result of a fetch is not a (capability,
\* tag) pair, so the unpacking or the worker's lookup fails
ProcessIncomingRecv(r) ==
    /\ ~aborted
    /\ rab[r].pc = "recv"
    /\ LET s == rab[r].src IN
         /\ chan[s][r] # <<>>
         /\ LET m == Head(chan[s][r]) IN
              IF m.kind = "req"
              THEN rab' = [rab EXCEPT
                     ![r].pc = "probe", ![r].src = 0,
                     ![r].outstanding =
                         Append(@, [source |-> s, rtag |-> m.rtag,
                                    cap |-> m.cap, state |-> "running",
                                    val |-> NoVal, by |-> m.by])]
              ELSE rab' = [rab EXCEPT ![r].pc = "raising", ![r].src = 0]
         /\ chan' = [chan EXCEPT ![s][r] = Tail(@)]
    /\ UNCHANGED <<spvars, config, nproc, assignments, inbox, gathered,
                   peer, thread, aborted>>

\* the worker of the i-th outstanding request: RAB.fetch forwards to the
\* local provider, whose fetch returns once the provider has run
WorkerFetch(r, i) ==
    /\ ~aborted
    /\ i \in DOMAIN rab[r].outstanding
    /\ rab[r].outstanding[i].state = "running"
    /\ LET e == rab[r].outstanding[i]
           l == Lookup(peer[r].cap_tbl, e.cap)
       IN  /\ l.provider # "RAB"
           /\ IF l.raised # "none"
              THEN rab' = [rab EXCEPT ![r].outstanding[i].state = "raised"]
              ELSE /\ ~MustWait(thread[r][l.provider].status)
                   /\ LET v == ReadResult(thread[r][l.provider].status,
                                          thread[r][l.provider].res, e.cap)
                      IN  rab' = [rab EXCEPT ![r].outstanding[i] =
                            IF v.kind = "value"
                            THEN [e EXCEPT !.state = "done", !.val = v.val]
                            ELSE [e EXCEPT !.state = "raised"]]
    /\ UNCHANGED <<spvars, config, nproc, assignments, inbox, gathered,
                   peer, thread, chan, aborted>>

\* RAB.process_outstanding on the table q: a worker still running is
\* skipped, a finished one is popped and its result kept for sending,
\* thread.result() of a worker that raised raises in the listener
RECURSIVE Drain(_, _, _)
Drain(q, kept, sent) ==
    IF q = <<>> THEN [raised |-> FALSE, left |-> kept, sent |-> sent]
    ELSE IF Head(q).state = "running"
    THEN Drain(Tail(q), Append(kept, Head(q)), sent)
    ELSE IF Head(q).state = "raised"
    THEN [raised |-> TRUE, left |-> kept \o q, sent |-> sent]
    ELSE Drain(Tail(q), kept, Append(sent, Head(q)))

\* the responses among sent that go to rank d: comm.send(rslt, dest=source,
\* tag=rtag)
RECURSIVE Responses(_, _)
Responses(sent, d) ==
    IF sent = <<>> THEN <<>>
    ELSE IF Head(sent).source # d THEN Responses(Tail(sent), d)
    ELSE <<[kind |-> "resp", tag |-> Head(sent).rtag, cap |-> NoCap,
            rtag |-> 0, val |-> Head(sent).val, by |-> Head(sent).by]>>
         \o Responses(Tail(sent), d)

\* RAB.listen, the rest of an iteration once iprobe finds no request:
\* process_outstanding, then the termination check with its assertion,
\* then the sleep
ProcessOutstanding(r) ==
    /\ ~aborted
    /\ rab[r].pc = "probe"
    /\ \A s \in World(nproc) : FirstWithTag(chan[s][r], TAG_REQ) = 0
    /\ LET d == Drain(rab[r].outstanding, <<>>, <<>>) IN
         /\ chan' = [chan EXCEPT ![r] =
               [q \in Ranks |-> chan[r][q] \o Responses(d.sent, q)]]
         /\ rab' = [rab EXCEPT
               ![r].outstanding = d.left,
               ![r].pc = IF d.raised THEN "raising"
                         ELSE IF ~rab[r].terminate THEN "probe"
                         ELSE IF d.left # <<>> THEN "raising"
                         ELSE "exited"]
    /\ UNCHANGED <<spvars, config, nproc, assignments, inbox, gathered,
                   peer, thread, aborted>>

\* RAB.listen_wrap after listen() raised: the executor's with block is left
\* once its workers have finished, status becomes 2, and the handler asks
\* for MPI.COMM_World, a name the MPI module does not have, so the handler
\* itself raises and the thread ends without an abort
ListenWrap(r) ==
    /\ ~aborted
    /\ rab[r].pc = "raising"
    /\ \A i \in DOMAIN rab[r].outstanding :
          rab[r].outstanding[i].state # "running"
    /\ rab' = [rab EXCEPT ![r].pc = "crashed", ![r].status = 2]
    /\ UNCHANGED <<spvars, config, nproc, assignments, inbox, gathered,
                   peer, thread, chan, aborted>>

\* main with --mp: the number of failures it counts once the components
\* have joined, a component whose status is not 1 and a RAB whose status
\* is not 0
NFailMP(r) ==
    Cardinality({c \in LocalComps(r) : thread[r][c].status # SUCCESS})
    + (IF rab[r].status # 0 THEN 1 ELSE 0)

\* a main that enters finalize whatever the number of failures
MainCheckMP_finalize(r) ==
    /\ ~aborted
    /\ peer[r].pc = "running"
    /\ \A c \in LocalComps(r) : thread[r][c].pc = "done"
    /\ peer' = [peer EXCEPT ![r].pc = "barrier"]
    /\ UNCHANGED <<spvars, rtvars, config, nproc, assignments, inbox,
                   gathered>>

\* main with --mp: the component threads are joined, the failures counted;
\* with none main goes on to finalize, otherwise it raises
MainCheckMP(r) ==
    /\ ~aborted
    /\ peer[r].pc = "running"
    /\ \A c \in LocalComps(r) : thread[r][c].pc = "done"
    /\ peer' = [peer EXCEPT
          ![r].pc = IF NFailMP(r) = 0 THEN "barrier" ELSE "raised",
          ![r].err = IF NFailMP(r) = 0 THEN "none" ELSE "ComponentsFailed"]
    /\ UNCHANGED <<spvars, rtvars, config, nproc, assignments, inbox,
                   gathered>>

\* rank q is in the barrier of finalize or has left it
InBarrier(q) == peer[q].pc \in {"barrier", "joinrab", "returned"}

\* a finalize without the barrier
Finalize_nobarrier(r) ==
    /\ ~aborted
    /\ peer[r].pc = "barrier"
    /\ peer' = [peer EXCEPT ![r].pc = "joinrab"]
    /\ rab' = [rab EXCEPT ![r].terminate = TRUE]
    /\ UNCHANGED <<spvars, config, nproc, assignments, inbox, gathered,
                   thread, chan, aborted>>

\* mp.finalize: comm.barrier() returns once every rank has entered it,
\* then rab.shutdown() sets the termination flag
Finalize(r) ==
    /\ ~aborted
    /\ peer[r].pc = "barrier"
    /\ \A q \in World(nproc) : InBarrier(q)
    /\ peer' = [peer EXCEPT ![r].pc = "joinrab"]
    /\ rab' = [rab EXCEPT ![r].terminate = TRUE]
    /\ UNCHANGED <<spvars, config, nproc, assignments, inbox, gathered,
                   thread, chan, aborted>>

\* mp.finalize: thread.join() on the listener thread; main returns 0
FinalizeJoin(r) ==
    /\ ~aborted
    /\ peer[r].pc = "joinrab"
    /\ rab[r].pc \in {"exited", "crashed"}
    /\ peer' = [peer EXCEPT ![r].pc = "returned"]
    /\ UNCHANGED <<spvars, rtvars, config, nproc, assignments, inbox,
                   gathered>>

\* the __main__ block: an exception out of main, from the bootstrap or
\* from the count of failures, is answered with MPI.COMM_WORLD.Abort(),
\* which ends every process of the world
MainAbort(r) ==
    /\ ~aborted
    /\ peer[r].pc \in {"failed", "raised"}
    /\ peer' = [peer EXCEPT ![r].pc = "aborted"]
    /\ aborted' = TRUE
    /\ UNCHANGED <<spvars, config, nproc, assignments, inbox, gathered,
                   thread, rab, chan>>

\* a multi-process run from mpirun to the exit of every process
NextRun ==
    \/ DistributeSupervisor
    \/ \E r \in Ranks : PeerRecv(r)
    \/ \E r \in Ranks : PeerCreate(r)
    \/ \E r \in Ranks : PeerGather(r)
    \/ \E r \in Ranks : PeerGatherReturn(r)
    \/ \E r \in Ranks : PeerAddRemote(r)
    \/ \E r \in Ranks : PeerStart(r)
    \/ \E r \in Ranks : GlobalThread(r)
    \/ \E r \in Ranks : GcamThread(r)
    \/ \E r \in Ranks : \E c \in RunComps : DummyFetch(r, c)
    \/ \E r \in Ranks : \E c \in RunComps : FetchLocal(r, c)
    \/ \E r \in Ranks : \E c \in RunComps : UniqueTagSearch(r, c)
    \/ \E r \in Ranks : \E c \in RunComps : FetchSend(r, c)
    \/ \E r \in Ranks : \E c \in RunComps : FetchRecv(r, c)
    \/ \E r \in Ranks : \E c \in RunComps : DummyEnd(r, c)
    \/ \E r \in Ranks : ProcessIncomingProbe(r)
    \/ \E r \in Ranks : ProcessIncomingRecv(r)
    \/ \E r \in Ranks : \E i \in 1..(2 * MaxRunReqs) : WorkerFetch(r, i)
    \/ \E r \in Ranks : ProcessOutstanding(r)
    \/ \E r \in Ranks : ListenWrap(r)
    \/ \E r \in Ranks : MainCheckMP(r)
    \/ \E r \in Ranks : Finalize(r)
    \/ \E r \in Ranks : FinalizeJoin(r)
    \/ \E r \in Ranks : MainAbort(r)

SpecRun == InitMPRun /\ [][NextRun]_vars

\* The round trip: a world of two, the consumer (DummyComponent.2, Bob) on
\* rank 1 and the producer (DummyComponent.1, Alice) on rank 0; the
\* consumer requests the capability of the producer, no body fails
InitRoundTrip ==
    /\ sections = <<>>
    /\ deporder = <<"D2", "D1", "Gcam", "Global">>
    /\ mainpc = "mp"
    /\ InitThreads
    /\ config = <<GlobalSection, Section("D2", <<>>, "Bob"),
                  Section("D1", <<>>, "Alice")>>
    /\ MPOn(2)

\* the steps such a run can take
NextRoundTrip ==
    \/ DistributeSupervisor
    \/ \E r \in Ranks : PeerRecv(r)
    \/ \E r \in Ranks : PeerCreate(r)
    \/ \E r \in Ranks : PeerGather(r)
    \/ \E r \in Ranks : PeerGatherReturn(r)
    \/ \E r \in Ranks : PeerAddRemote(r)
    \/ \E r \in Ranks : PeerStart(r)
    \/ \E r \in Ranks : GlobalThread(r)
    \/ \E r \in Ranks : \E c \in RunComps : DummyFetch(r, c)
    \/ \E r \in Ranks : \E c \in RunComps : UniqueTagSearch(r, c)
    \/ \E r \in Ranks : \E c \in RunComps : FetchSend(r, c)
    \/ \E r \in Ranks : \E c \in RunComps : FetchRecv(r, c)
    \/ \E r \in Ranks : \E c \in RunComps : DummyEnd(r, c)
    \/ \E r \in Ranks : ProcessIncomingProbe(r)
    \/ \E r \in Ranks : ProcessIncomingRecv(r)
    \/ \E r \in Ranks : \E i \in 1..(2 * MaxRunReqs) : WorkerFetch(r, i)
    \/ \E r \in Ranks : ProcessOutstanding(r)
    \/ \E r \in Ranks : ListenWrap(r)
    \/ \E r \in Ranks : MainCheckMP(r)
    \/ \E r \in Ranks : Finalize(r)
    \/ \E r \in Ranks : FinalizeJoin(r)

\* the steps of the main thread of rank r
PeerStep(r) ==
    \/ (r = SUPERVISOR_RANK /\ DistributeSupervisor)
    \/ PeerRecv(r) \/ PeerCreate(r) \/ PeerGather(r) \/ PeerGatherReturn(r)
    \/ PeerAddRemote(r) \/ PeerStart(r) \/ MainCheckMP(r) \/ Finalize(r)
    \/ FinalizeJoin(r)

\* the steps of the thread of component c of rank r
CompStep(r, c) ==
    \/ (c = "Global" /\ GlobalThread(r))
    \/ (c = "Gcam" /\ GcamThread(r))
    \/ DummyFetch(r, c) \/ FetchLocal(r, c) \/ UniqueTagSearch(r, c)
    \/ FetchSend(r, c) \/ FetchRecv(r, c) \/ DummyEnd(r, c)

\* the steps of the listener thread of rank r and of its workers
ListenStep(r) ==
    \/ ProcessIncomingProbe(r) \/ ProcessIncomingRecv(r)
    \/ ProcessOutstanding(r) \/ ListenWrap(r)
    \/ \E i \in 1..(2 * MaxRunReqs) : WorkerFetch(r, i)

\* every thread of every process that can take a step eventually takes one
SpecRoundTrip ==
    /\ InitRoundTrip /\ [][NextRoundTrip]_vars
    /\ \A r \in World(2) :
          /\ WF_vars(PeerStep(r))
          /\ WF_vars(ListenStep(r))
          /\ \A c \in RunComps : WF_vars(CompStep(r, c))

\* Two requests at one listener: a world of two, the producers
\* (GcamComponent and DummyComponent.1, Alice) on rank 0 and the consumers
\* (DummyComponent.2, Bob, and DummyComponent.3, Carol) on rank 1; every
\* request goes to a section later in the order, no body fails by itself
InitInbound ==
    /\ sections = <<>>
    /\ deporder = <<"D3", "D2", "D1", "Gcam", "Global">>
    /\ mainpc = "mp"
    /\ InitThreads
    /\ config = <<GlobalSection, Section("D2", <<>>, "Bob"),
                  Section("Gcam", <<>>, NoCap), Section("D3", <<>>, "Carol"),
                  Section("D1", <<>>, "Alice")>>
    /\ MPOn(2)

\* Every main thread, every listener with its workers and every consumer
\* that can take a step eventually takes one; the body of a producer may
\* take as long as it likes
SpecInbound ==
    /\ InitInbound /\ [][NextRun]_vars
    /\ \A r \in World(2) :
          /\ WF_vars(PeerStep(r))
          /\ WF_vars(ListenStep(r))
    /\ \A c \in RunComps : WF_vars(CompStep(1, c))

\* ------------------------------------------------------------------ claims

\* thread t is inside fetch on provider p, blocked on p's lock or condition
Blocked(t, p) ==
    /\ pc[t] \in {"f_lock", "f_wait", "f_reacq"}
    /\ Provider(t) = p

\* run_component of p has ended (returned or raised)
BodyEnded(p) == pc[p] \in {"w_status", "w_notify", "w_release", "done"}

\* the fetch of thread t went past the lookup and has completed
Completed(t) == fres[t].kind \in {"value", "ProducerFailed", "KeyError"}

\* the owner of the capability of the completed fetch of thread t
OwnerOf(t) == cap_tbl[fres[t].cap]

\* C1: while the producer of a capability is PENDING, whether its body has
\* not started or is still running, no fetch of that capability has left the
\* locked region, returned a value or raised.
C1_NoFetchCompletesWhilePending ==
    \A t \in Comps :
        /\ pc[t] = "f_read" => status[Provider(t)] # PENDING
        /\ Completed(t) => status[OwnerOf(t)] # PENDING

\* C1 witness: a consumer waits on the condition of a producer whose thread
\* has not been started yet.
C1_Witness ==
    \E t \in Comps : \E p \in Comps :
        /\ pc[t] = "f_wait" /\ Provider(t) = p
        /\ pc[p] = "idle" /\ status[p] = PENDING

\* C2: if a component published v for capability X (its last addresults) and
\* is in SUCCESS, every fetch of X that has completed returned exactly v.
C2_FetchReturnsPublished ==
    \A t \in Comps :
        (/\ Completed(t)
         /\ status[OwnerOf(t)] = SUCCESS
         /\ published[OwnerOf(t)][fres[t].cap] # NoVal)
        => /\ fres[t].kind = "value"
           /\ fres[t].val = published[OwnerOf(t)][fres[t].cap]

\* C2 witness: a consumer that had to wait for the producer got its object.
C2_Witness ==
    \E t \in Dummies :
        /\ fres[t].kind = "value"
        /\ fres[t].cap = "gcam-core"
        /\ fres[t].val = published["Gcam"]["gcam-core"]
        /\ fres[t].val = ObjectOf("Gcam")

\* C3: a fetch returns a value only from a producer in SUCCESS; a fetch that
\* completed on a producer in FAILURE raised and returned no value, also when
\* the producer had stored a result before failing.
C3_NoValueFromFailedProducer ==
    \A t \in Comps :
        /\ fres[t].kind = "value" => status[OwnerOf(t)] = SUCCESS
        /\ (Completed(t) /\ status[OwnerOf(t)] = FAILURE)
               => (fres[t].kind = "ProducerFailed" /\ fres[t].val = NoVal)

\* C3 witness: the fetch raised although the failed producer holds a result.
C3_Witness ==
    \E t \in Comps :
        /\ fres[t].kind = "ProducerFailed"
        /\ status[OwnerOf(t)] = FAILURE
        /\ results[OwnerOf(t)][fres[t].cap] # NoVal

\* C4: every thread blocked inside fetch on producer P (on P's condition or
\* on P's lock) eventually resumes once P's body has ended, however it ended.
C4_WaitersResume ==
    \A t \in Dummies :
        (\E p \in Comps : Blocked(t, p) /\ BodyEnded(p))
            ~> (\A p \in Comps : ~Blocked(t, p))

\* C4 witness: two threads wait on the condition of a producer whose body
\* has just ended with an exception.
C4_Witness ==
    \E p \in Comps :
        /\ pc[p] = "w_status" /\ outcome[p] = "raise"
        /\ Cardinality(waiters[p]) = 2
        /\ \A t \in waiters[p] : Blocked(t, p)

\* C5: status starts at PENDING, changes only from PENDING and only to
\* SUCCESS or FAILURE; once SUCCESS or FAILURE no step changes it.
C5_StatusMonotonic ==
    /\ \A c \in Comps : status[c] = PENDING
    /\ [][\A c \in Comps :
            /\ status'[c] # status[c] => status[c] = PENDING
            /\ status'[c] \in {PENDING, SUCCESS, FAILURE}]_vars

\* C5 witness: one component succeeded, one failed, and a third thread is
\* still running.
C5_Witness ==
    \E a, b, c \in Comps :
        /\ status[a] = SUCCESS /\ pc[a] = "done"
        /\ status[b] = FAILURE /\ pc[b] = "done"
        /\ pc[c] \in {"body", "f_lock", "f_check", "f_read"}

\* C6: notify_all of a component is called exactly once on every path out of
\* the wrapper, never while the status is PENDING and never a second time.
C6_NotifyExactlyOnce ==
    \A c \in Comps :
        /\ notified[c] <= 1
        /\ notified[c] = 1 => status[c] # PENDING
        /\ pc[c] \in {"w_release", "done"} => notified[c] = 1
        /\ pc[c] \notin {"w_release", "done"} => notified[c] = 0

\* C6 witness: the three ways out of the wrapper, each notified once.
C6_Witness ==
    /\ pc["Global"] = "done" /\ status["Global"] = SUCCESS
    /\ notified["Global"] = 1
    /\ pc["Gcam"] = "w_release" /\ outcome["Gcam"] = "retnz"
    /\ notified["Gcam"] = 1
    /\ pc["D1"] = "w_release" /\ outcome["D1"] = "raise"
    /\ notified["D1"] = 1

\* C7: whenever a component is in SUCCESS, every capability it registered in
\* the capability table has an entry in its results.
C7_SuccessHasAllResults ==
    \A c \in Comps :
        status[c] = SUCCESS =>
            \A n \in CapNames : cap_tbl[n] = c => results[c][n] # NoVal

\* C8: table entries are write-once.  No step changes an existing entry, and
\* addcapability(name) by c adds name -> c and nothing else when name is
\* absent, and raises leaving the table as it was when name is present.
C8_AddCapabilityWriteOnce ==
    [][/\ \A n \in CapNames : InTable(cap_tbl, n) => cap_tbl'[n] = cap_tbl[n]
       /\ call'.op = "addcapability" =>
            IF InTable(cap_tbl, call'.cap)
            THEN call'.raised = "DuplicateCapability" /\ cap_tbl' = cap_tbl
            ELSE /\ call'.raised = "none"
                 /\ cap_tbl' = [cap_tbl EXCEPT ![call'.cap] = call'.comp]
      ]_vars

\* C8 witness: a component was refused a name it owns itself, and the table
\* still maps the name to it.
C8_Witness ==
    /\ call.op = "addcapability"
    /\ call.raised = "DuplicateCapability"
    /\ cap_tbl[call.cap] = call.comp
    /\ pc[call.comp] = "idle"

\* the step is a call of fetch by the body of thread t
IsFetchCall(t) == pc[t] = "body" /\ nreq'[t] = nreq[t] + 1

\* C9: a fetch of a name that is not in the capability table raises
\* CapabilityNotFound in the calling step: the thread does not block, takes
\* no lock and changes no status, result or table entry; only registered
\* names are ever waited for.
C9_FetchUnknownRaises ==
    [][\A t \in Comps :
         /\ (IsFetchCall(t) /\ ~InTable(cap_tbl, target'[t]))
              => /\ fres'[t].kind = "CapabilityNotFound"
                 /\ pc'[t] = "w_status" /\ outcome'[t] = "raise"
                 /\ UNCHANGED <<lockOwner, lockCount, waiters, status,
                                results, cap_tbl>>
         /\ (IsFetchCall(t) /\ InTable(cap_tbl, target'[t]))
              => fres'[t].kind # "CapabilityNotFound"
         /\ pc'[t] \in {"f_lock", "f_check", "f_wait", "f_reacq", "f_read"}
              => InTable(cap_tbl', target'[t])
      ]_vars

\* C9 witness: the body of a running component ended on CapabilityNotFound
\* while another thread waits inside fetch.
C9_Witness ==
    \E t, u \in Dummies :
        /\ fres[t].kind = "CapabilityNotFound"
        /\ fres[t].cap = "NotACapability"
        /\ pc[t] = "w_status"
        /\ pc[u] = "f_wait"

\* C10: addresults(cap, v) by c stores v in c.results[cap] only when the
\* table maps cap to c; for a capability of another owner it raises the
\* not-owned error, for an unregistered one CapabilityNotFound, and then no
\* results change.
C10_AddResultsOwnerOnly ==
    [][call'.op = "addresults" =>
         LET c == call'.comp
             n == call'.cap
         IN  IF cap_tbl'[n] = c
             THEN /\ call'.raised = "none"
                  /\ results' = [results EXCEPT ![c][n] = call'.val]
             ELSE /\ results' = results
                  /\ call'.raised = IF InTable(cap_tbl', n)
                                    THEN "NotOwned"
                                    ELSE "CapabilityNotFound"
      ]_vars

\* C10 witness: a component was refused a capability of another owner, and
\* the owner has no result for it.
C10_Witness ==
    /\ call.op = "addresults"
    /\ call.raised = "NotOwned"
    /\ cap_tbl[call.cap] \notin {NoComp, call.comp}
    /\ results[cap_tbl[call.cap]][call.cap] = NoVal
    /\ results[call.comp][call.cap] = NoVal

\* the configuration file has one of the errors bootstrap rejects: no
\* [Global] section, a section of an unknown type, or two components that
\* register the same capability name
ConfigError ==
    \/ "Global" \notin SectionSet(sections)
    \/ \E i \in 1..Len(sections) : sections[i] \notin Comps
    \/ \E c \in Dummies : \E d \in Dummies :
           c # d /\ name[c] # NoCap /\ name[c] = name[d]

\* C11: when the configuration has an error (no [Global] section, a section
\* of an unknown component type, two components registering the same
\* capability name), main never gets past bootstrap: run() is called on no
\* component, so no component thread exists and no body is started.
C11_ConfigErrorStartsNothing ==
    ConfigError =>
        /\ mainpc \in {"config", "bootstrap", "failed"}
        /\ \A c \in Comps : pc[c] \in {"new", "idle"}

\* C11 witness: bootstrap has raised for a configuration error after it had
\* already constructed components, and none of them was started.
C11_Witness ==
    /\ mainpc = "failed"
    /\ err \in {"NoGlobalSection", "UnknownComponent", "DuplicateCapability"}
    /\ ConfigError
    /\ \E c \in Comps : pc[c] = "idle"
    /\ \A c \in Comps : pc[c] \in {"new", "idle"}

\* main has counted the failures and returned 0
MainReturned == mainpc = "done"

\* main has counted the failures and raised
MainRaised == mainpc = "failed" /\ err = "ComponentsFailed"

\* C12: the single-process main inspects the statuses only after every
\* component thread has been joined, so every status it reads is terminal;
\* it returns 0 if and only if every status is SUCCESS and raises otherwise.
C12_MainVerdictAfterJoin ==
    /\ (mainpc = "check" \/ MainReturned \/ MainRaised) =>
          \A c \in SectionSet(sections) :
              pc[c] = "done" /\ status[c] \in {SUCCESS, FAILURE}
    /\ MainReturned =>
          \A c \in SectionSet(sections) : status[c] = SUCCESS
    /\ MainRaised =>
          \E c \in SectionSet(sections) : status[c] # SUCCESS

\* C12 witness: main has raised after the join with one component in
\* FAILURE and another in SUCCESS.
C12_Witness ==
    /\ MainRaised
    /\ \E c \in Comps : status[c] = FAILURE
    /\ \E c \in Comps : status[c] = SUCCESS

\* run_component of p has ended by an exception or a non-zero return
FailedBody(p) ==
    /\ BodyEnded(p)
    /\ outcome[p] \in {"retnz", "raise"} \/ status[p] = FAILURE

\* thread t is inside fetch of a capability of p, past the lookup
InFetchOn(t, p) ==
    /\ pc[t] \in {"f_lock", "f_check", "f_wait", "f_reacq", "f_read"}
    /\ Provider(t) = p

\* every component thread main started has ended
AllJoined == \A c \in SectionSet(sections) : pc[c] = "done"

C14_AcyclicAllSucceed ==
    /\ AllJoined => \A c \in Comps : status[c] = SUCCESS
    /\ mainpc # "failed"

\* thread t is inside condition.wait() of the component owning 'general'
WaitsForGeneral(t) == pc[t] = "f_wait" /\ target[t] = "general"

Started(c) == pc[c] \notin {"new", "idle"}

\* C17: for every component, the Global parameters component included, the
\* params mapping is frozen once run() has been called; no later step
\* changes it.
C17_ParamsFrozenAfterStart ==
    [][\A c \in Comps : Started(c) => params'[c] = params[c]]_vars

\* the supervisor has left distribute_assignments_supervisor
Distributed == peer[SUPERVISOR_RANK].pc \notin {"off", "distribute"}

\* the ranks whose assignment holds the section x
Assignees(x) ==
    {r \in DOMAIN assignments :
        \E j \in DOMAIN assignments[r] : assignments[r][j] = x}

\* C20: for any configuration with a [Global] section and any number of
\* peers n >= 1, the assignment the supervisor makes gives every component
\* section to exactly one peer and the [Global] section to every peer.
C20_EverySectionAssignedOnce ==
    (Distributed /\ \E i \in DOMAIN config : config[i].sec = "Global") =>
        /\ DOMAIN assignments = World(nproc)
        /\ \A i \in DOMAIN config :
              IF config[i].sec = "Global"
              THEN Assignees(config[i]) = World(nproc)
              ELSE Cardinality(Assignees(config[i])) = 1

\* the number an mp.weight stands for; a section without one weighs 1.0
RECURSIVE NumWeight(_)
NumWeight(w) ==
    IF w = <<>> THEN 1
    ELSE IF Len(w) = 1 THEN w[1]
    ELSE 10 * NumWeight(SubSeq(w, 1, Len(w) - 1)) + w[Len(w)]

\* the position of a section name in the order of Python's str
NameRank(sec) == CASE sec = "D1" -> 1 [] sec = "D2" -> 2 [] OTHER -> 3

\* the place of the section x in the order the supervisor dealt the
\* sections: the j-th section of rank r, counted after its [Global] entry,
\* was dealt in round j - 2 at the turn of rank r
DealIndex(x) ==
    CHOOSE k \in 0..(Len(config) * MaxPeers) :
        \E r \in DOMAIN assignments : \E j \in DOMAIN assignments[r] :
            /\ assignments[r][j] = x
            /\ k = (j - 2) * nproc
                   + ((r + nproc - ((SUPERVISOR_RANK + 1) % nproc)) % nproc)

\* C21: the supervisor deals sections to peers round-robin in descending
\* order of numeric mp.weight (default 1.0), and sections with equal weight
\* are ordered by section name, independent of their order in the
\* configuration file.
C21_DealtByWeightThenName ==
    (Distributed /\ peer[SUPERVISOR_RANK].err = "none") =>
        \A i \in DOMAIN config : \A j \in DOMAIN config :
            LET x == config[i]
                y == config[j]
            IN  (/\ x.sec # "Global" /\ y.sec # "Global"
                 /\ \/ NumWeight(x.weight) > NumWeight(y.weight)
                    \/ /\ NumWeight(x.weight) = NumWeight(y.weight)
                       /\ NameRank(x.sec) < NameRank(y.sec))
                => DealIndex(x) < DealIndex(y)

\* main of rank r has called run() on an entry of its component list
PeerRunCalled(r) == peer[r].started > 0

\* C18: the registry is frozen before any component runs.  In a run driven
\* by main, single-process or multi-process, every write to the capability
\* table and to the remote capability table of the RAB happens during
\* bootstrap: from the first run() call of a process on, no step changes
\* either table of that process.
C18_RegistryFrozenAfterFirstRun ==
    [][/\ (\E c \in Comps : Started(c)) => cap_tbl' = cap_tbl
       /\ \A r \in World(nproc) :
             PeerRunCalled(r) =>
                 /\ peer'[r].cap_tbl = peer[r].cap_tbl
                 /\ peer'[r].remote_caps = peer[r].remote_caps]_vars

\* C18 witness: a process of a multi-process run has started its RAB and
\* its components on tables that hold a local and a remote capability,
\* while another process is still in bootstrap.
C18_Witness ==
    \E r \in World(nproc) : \E q \in World(nproc) :
        /\ peer[r].pc = "running" /\ peer[r].started = Len(peer[r].comps)
        /\ DOMAIN peer[r].remote_caps # {}
        /\ \E n \in CapNames : peer[r].cap_tbl[n] \in Dummies
        /\ peer[q].pc = "addremote"

\* bootstrap_mp has returned on every process
BootstrapComplete ==
    /\ nproc > 0
    /\ \A r \in World(nproc) : peer[r].pc \in {"start", "running"}

\* the capability names the component sections of the configuration register
ConfigCaps ==
    {CapabilityOf(config[i]) :
        i \in {k \in DOMAIN config : config[k].sec # "Global"}}

\* two sections assigned to different processes register the same name
ProducedOnTwoPeers ==
    \E i \in DOMAIN config : \E j \in DOMAIN config :
        /\ i # j
        /\ CapabilityOf(config[i]) = CapabilityOf(config[j])
        /\ Assignees(config[i]) # {} /\ Assignees(config[j]) # {}
        /\ Assignees(config[i]) # Assignees(config[j])

\* C19: after the multi-process bootstrap has completed on all peers,
\* every capability name other than general is owned by a local component
\* on exactly one peer, and on every other peer the capability table maps
\* it to the RAB and remote_caps maps it to the rank of the owner.  If the
\* same name is produced on two peers, bootstrap completes on no peer:
\* every peer that leaves the addremote loop has raised the
\* duplicate-capability error.
C19_RemoteTablesAgree ==
    /\ BootstrapComplete =>
          \A n \in ConfigCaps :
              \E o \in World(nproc) :
                  /\ peer[o].cap_tbl[n] \in Comps
                  /\ \A q \in World(nproc) \ {o} :
                        /\ peer[q].cap_tbl[n] = "RAB"
                        /\ n \in DOMAIN peer[q].remote_caps
                        /\ peer[q].remote_caps[n] = o
    /\ ProducedOnTwoPeers =>
          \A r \in World(nproc) :
              /\ peer[r].pc \notin {"start", "running"}
              /\ peer[r].pc = "failed" =>
                     peer[r].err = "DuplicateCapability"

\* C19 witness: bootstrap has completed in a world of three processes, each
\* of which owns one capability and reaches the other two through its RAB.
C19_Witness ==
    /\ BootstrapComplete
    /\ nproc = 3
    /\ \A r \in World(nproc) :
          /\ Cardinality(DOMAIN peer[r].remote_caps) = 2
          /\ \E n \in ConfigCaps : peer[r].cap_tbl[n] \in Comps

\* the listener thread of rank r has been started
ListenerStarted(r) == rab[r].pc # "off"

\* C22: in multi-process mode each peer starts its RAB listener thread
\* before it starts any local component: no component thread of a peer
\* exists, and so no body has begun or issued a request, while the
\* listener of that peer has not been started.
C22_ListenerStartedFirst ==
    \A r \in Ranks : \A c \in Comps :
        thread[r][c].pc # "off" => ListenerStarted(r)

\* C22 witness: the body of a component has sent a remote request while
\* main of its rank is still starting the other components of the rank.
C22_Witness ==
    \E r \in Ranks : \E c \in Comps : \E d \in Comps :
        /\ ListenerStarted(r)
        /\ peer[r].pc = "start"
        /\ thread[r][c].pc = "recv"
        /\ d \in LocalComps(r) /\ thread[r][d].pc = "off"

\* a component thread of rank q has been started and has not terminated
ComponentRunning(q) ==
    \E c \in LocalComps(q) : thread[q][c].pc \notin {"off", "done"}

\* C23: in multi-process mode no peer sets its RAB termination flag while
\* a component on any peer is still running: when the flag of a peer is
\* set, the components of that peer have joined and every peer has entered
\* the barrier, so the components of every peer have terminated.
C23_NoShutdownWhileRunning ==
    \A r \in Ranks :
        rab[r].terminate =>
            /\ peer[r].pc \in {"joinrab", "returned"}
            /\ \A q \in World(nproc) :
                  /\ InBarrier(q)
                  /\ ~ComponentRunning(q)
                  /\ \A c \in LocalComps(q) : thread[q][c].pc = "done"

\* C23 witness: in a world of two, one peer has set its termination flag
\* after serving a remote request while the other is still in the barrier.
C23_Witness ==
    \E r \in Ranks : \E q \in Ranks :
        /\ nproc = 2 /\ r # q
        /\ rab[r].terminate /\ ~rab[q].terminate
        /\ peer[q].pc = "barrier"
        /\ \E c \in LocalComps(q) :
              /\ thread[q][c].got.kind = "resp"
              /\ thread[q][c].got.val \in LocalComps(r)

\* C24: whenever the RAB listener loop observes the termination flag set,
\* its pending-request table is empty, so the assertion in listen() never
\* fails: an iteration of the loop that finds the flag set leaves the loop
\* with an empty table, by the break and not by an exception.
C24_TerminateFindsTableEmpty ==
    [][\A r \in Ranks :
          (ProcessOutstanding(r) /\ rab[r].terminate) =>
              /\ rab'[r].outstanding = <<>>
              /\ rab'[r].pc = "exited"]_vars

\* C24 witness: a listener that served a remote request has found the flag
\* set and left its loop.
C24_Witness ==
    \E r \in Ranks : \E q \in Ranks : \E c \in Comps :
        /\ rab[r].pc = "exited"
        /\ q # r /\ thread[q][c].got.kind = "resp"
        /\ thread[q][c].got.val \in LocalComps(r)

\* thread c of rank r holds a tag and has not yet received on it
AwaitingResponse(r, c) == thread[r][c].pc \in {"tagged", "recv"}

\* no two fetch calls of one process that await a response hold the same
\* tag; a tag is entered in the in-use set when unique_tag returns it
TagsDistinct ==
    /\ \A r \in Ranks : \A c \in Comps : \A d \in Comps :
          (c # d /\ AwaitingResponse(r, c) /\ AwaitingResponse(r, d)) =>
              thread[r][c].tag # thread[r][d].tag
    /\ \A r \in Ranks : \A c \in Comps :
          thread[r][c].pc = "recv" => thread[r][c].tag \in rab[r].tags

\* C25: correlation tags are unique per process.  For any interleaving of
\* concurrent unique_tag() calls on one RAB no two calls return the same
\* tag, a returned tag is not in the in-use set at the moment it is
\* allocated, and no tag is issued again before the response to the
\* request that used it has been received: the in-use set never loses a
\* tag, and a search returns a tag outside it that no waiting call holds.
C25_TagsUnique ==
    /\ []TagsDistinct
    /\ [][\A r \in Ranks :
             /\ rab[r].tags \subseteq rab'[r].tags
             /\ \A c \in Comps :
                   (thread[r][c].pc = "tag"
                        /\ thread'[r][c].pc = "tagged") =>
                       /\ thread'[r][c].tag \notin rab[r].tags
                       /\ \A d \in Comps \ {c} :
                             AwaitingResponse(r, d) =>
                                 thread'[r][c].tag # thread[r][d].tag]_vars

\* C25 witness: two threads of one process are in RAB.fetch at once, one
\* waiting for its response, the other just given a different tag.
C25_Witness ==
    \E r \in Ranks : \E c \in Comps : \E d \in Comps :
        /\ c # d
        /\ thread[r][c].pc = "recv" /\ thread[r][d].pc = "tagged"
        /\ thread[r][c].tag = TAG_REQ /\ thread[r][d].tag = TAG_REQ + 1

\* C26: the pair (source peer, tag) identifies one pending remote request.
\* With several threads of one process in fetch_remote at once and
\* requests flowing in both directions between two peers, the message the
\* blocking receive of a thread obtains is the RESPONSE to that thread's
\* own REQUEST, never the response of another thread and never a REQUEST.
C26_ReceiveGetsOwnResponse ==
    \A r \in Ranks : \A c \in Comps :
        thread[r][c].got.kind # "none" =>
            /\ thread[r][c].got.kind = "resp"
            /\ thread[r][c].got.by = <<r, c>>

\* the fetch calls of the consumer on rank 1 returned what the producer on
\* rank 0 published, after the producer had succeeded
RoundTripValue ==
    thread[1]["D2"].got.kind # "none" =>
        /\ thread[1]["D2"].got.kind = "resp"
        /\ thread[1]["D2"].got.val = ObjectOf("D1")
        /\ thread[0]["D1"].status = SUCCESS
        /\ thread[0]["D1"].res["Alice"] = ObjectOf("D1")

\* both peers have returned from main without a failure, their listeners
\* have left their loops
RoundTripDone ==
    \A r \in World(2) :
        /\ peer[r].pc = "returned" /\ peer[r].err = "none"
        /\ rab[r].pc = "exited" /\ rab[r].status = 0
        /\ \A c \in LocalComps(r) : thread[r][c].status = SUCCESS

\* C27: multi-process round trip.  With producer P on peer 0 publishing X
\* and consumer C on peer 1 fetching X, in every interleaving the fetch of
\* C returns the value P published and only after P reached SUCCESS; then
\* C terminates, both peers pass the barrier, both RAB listeners exit, and
\* both peers report success.
C27_RoundTrip == []RoundTripValue /\ <>[]RoundTripDone

\* the entry e of the table of rank r has been answered: a response with
\* its tag is on its way to its source
Answered(r, e) ==
    \E j \in DOMAIN chan'[r][e.source] :
        /\ chan'[r][e.source][j].kind = "resp"
        /\ chan'[r][e.source][j].tag = e.rtag
        /\ chan'[r][e.source][j].by = e.by

\* C28: for every inbound REQUEST the listener has received, once its
\* worker finishes, with a result or with a failure, the listener sends a
\* RESPONSE to (origin peer, origin tag) and removes the entry from the
\* pending-request table: after process_outstanding has run, no entry of a
\* finished worker is left in the table, and each has been answered.
C28_FinishedWorkerAnswered ==
    [][\A r \in Ranks :
          ProcessOutstanding(r) =>
              \A i \in DOMAIN rab[r].outstanding :
                  LET e == rab[r].outstanding[i] IN
                    e.state # "running" =>
                        /\ Answered(r, e)
                        /\ \A j \in DOMAIN rab'[r].outstanding :
                              rab'[r].outstanding[j] # e]_vars

\* C29: if the RAB listener loop fails with an exception, the listener
\* wrapper marks the RAB as failed (status 2) and invokes the group-abort
\* primitive of the transport: once the wrapper is through, the whole
\* process group has been aborted.
C29_ListenerFailureAborts ==
    \A r \in Ranks :
        rab[r].pc = "crashed" => (rab[r].status = 2 /\ aborted)

\* main of rank r has counted at least one failure
CountedFailure(r) == peer[r].err = "ComponentsFailed"

\* C30 as stated: in multi-process mode a peer whose aggregation of
\* component statuses finds at least one failure still takes part in the
\* collective barrier, and executes the group abort after it.
C30_FailureStillEntersBarrier ==
    [][\A r \in Ranks :
          (MainCheckMP(r) /\ NFailMP(r) > 0) =>
              peer'[r].pc = "barrier"]_vars

\* C30, amended: a peer whose aggregation finds at least one failure
\* raises out of main without entering the barrier; the only step it takes
\* after that is the group abort of the __main__ block.  No peer passes the
\* barrier or sets its termination flag in such a run.
C30_FailureAbortsWithoutBarrier ==
    /\ [](\A r \in Ranks :
            CountedFailure(r) =>
                /\ peer[r].pc \in {"raised", "aborted"}
                /\ \A q \in World(nproc) :
                      /\ peer[q].pc \notin {"joinrab", "returned"}
                      /\ ~rab[q].terminate)
    /\ [][\A r \in Ranks :
             /\ (MainCheckMP(r) /\ NFailMP(r) > 0) =>
                    peer'[r].pc = "raised"
             /\ (peer[r].pc = "raised" /\ peer'[r] # peer[r]) =>
                    (peer'[r].pc = "aborted" /\ aborted')]_vars

\* C30 witness: a peer has aborted the group after counting a failure
\* while the other peer, whose components succeeded, waits in the barrier.
C30_Witness ==
    \E r \in Ranks : \E q \in Ranks :
        /\ CountedFailure(r) /\ peer[r].pc = "aborted" /\ aborted
        /\ q # r /\ peer[q].pc = "barrier"

\* C31 (as stated): with a configuration that contains only the [Global]
\* section, main returns 0 and no component thread is ever started.
C31_OnlyGlobalStartsNoThread ==
    sections = <<"Global">> =>
        /\ \A c \in Comps : pc[c] \in {"new", "idle"}
        /\ mainpc # "failed"

\* C31 (amended): with a configuration that contains only the [Global]
\* section, main starts exactly one component thread, that of the
\* GlobalParamsComponent, and joins it; main returns 0 only after that thread
\* has ended with status 1, and raises "components failed" only when the
\* thread has ended with status 2.
C31_OnlyGlobalRunsGlobalThread ==
    sections = <<"Global">> =>
        /\ \A c \in Comps \ {"Global"} : pc[c] = "new"
        /\ mainpc \in {"join", "check", "done"} =>
              pc["Global"] \notin {"new", "idle"}
        /\ mainpc = "done" =>
              pc["Global"] = "done" /\ status["Global"] = SUCCESS
        /\ (mainpc = "failed" /\ err = "ComponentsFailed") =>
              pc["Global"] = "done" /\ status["Global"] = FAILURE

C31_Witness ==
    /\ sections = <<"Global">>
    /\ mainpc = "done"
    /\ pc["Global"] = "done"
    /\ notified["Global"] = 1

\* C32: once run_component_wrapper has written the status, the status is
\* SUCCESS iff run_component returned 0 and FAILURE iff it returned a non-zero
\* value or raised; the wrapper then returns in the first case and lets an
\* exception propagate in the second, so a thread that has ended has either
\* status SUCCESS and returned, or status FAILURE and raised.
C32_WrapperMapsOutcome ==
    \A c \in Comps :
        /\ pc[c] \in {"w_notify", "w_release"} =>
              /\ status[c] = SUCCESS <=> outcome[c] = "ret0"
              /\ status[c] = FAILURE <=> outcome[c] \in {"retnz", "raise"}
        /\ pc[c] = "done" =>
              \/ status[c] = SUCCESS /\ outcome[c] = "returned"
              \/ status[c] = FAILURE /\ outcome[c] = "raised"

C32_Witness ==
    /\ pc["Gcam"] = "w_notify" /\ outcome["Gcam"] = "retnz"
    /\ status["Gcam"] = FAILURE
    /\ pc["D1"] = "done" /\ outcome["D1"] = "returned"
    /\ pc["D2"] = "done" /\ outcome["D2"] = "raised"

C34_NoLostWakeup ==
    /\ [](\A t \in Comps :
            pc[t] = "f_wait" =>
                /\ notified[Provider(t)] = 0
                /\ \/ status[Provider(t)] = PENDING
                   \/ pc[Provider(t)] = "w_notify")
    /\ [][\A t \in Comps :
            (pc[t] # "f_wait" /\ pc'[t] = "f_wait") =>
                status[Provider(t)] = PENDING]_vars

C34_Witness ==
    /\ pc["D1"] = "f_check" /\ Provider("D1") = "D2"
    /\ pc["D2"] = "done" /\ notified["D2"] = 1
    /\ status["D2"] = SUCCESS

\* C35 (as stated): a thread suspended in the receive of RAB.fetch owns no
\* lock of its process, neither the tag lock of the RAB nor the lock of a
\* component's condition, its own component's included.
C35_RecvHoldsNoLock ==
    \A r \in Ranks : \A c \in Comps :
        thread[r][c].pc = "recv" =>
            /\ rab[r].taglock # <<r, c>>
            /\ ~thread[r][c].locked

\* C35 (amended): a thread suspended in the receive of RAB.fetch does not
\* own the tag lock of the RAB, but it does own the lock of its own
\* component's condition: the body runs inside the with block of the
\* wrapper, so the status of the component is PENDING and every fetch of its
\* capability, by a local thread or by a worker of the RAB, has to wait
\* until the receive has returned and the body has ended.
C35_RecvHoldsOnlyOwnCondition ==
    \A r \in Ranks : \A c \in Comps :
        thread[r][c].pc = "recv" =>
            /\ rab[r].taglock # <<r, c>>
            /\ thread[r][c].locked
            /\ thread[r][c].status = PENDING
            /\ \A i \in DOMAIN rab[r].outstanding :
                  peer[r].cap_tbl[rab[r].outstanding[i].cap] = c =>
                      rab[r].outstanding[i].state = "running"

C35_Witness ==
    \E r \in Ranks : \E c \in Comps :
        /\ thread[r][c].pc = "recv"
        /\ thread[r][c].locked
        /\ \E i \in DOMAIN rab[r].outstanding :
              /\ peer[r].cap_tbl[rab[r].outstanding[i].cap] = c
              /\ rab[r].outstanding[i].state = "running"

\* C36: a body that fetches a capability of its own component does not
\* stop the whole process: whenever a thread waits in such a fetch, the main
\* thread still gets through its joins and ends, returning 0 or raising
\* with the number of failures.
C36_SelfFetchMainFinishes ==
    \A c \in Dummies :
        (pc[c] = "f_wait" /\ Provider(c) = c)
            ~> (mainpc \in {"done", "failed"})

\* C37: the workers of the listener do not run inline.  Whenever a thread has
\* sent a REQUEST for a capability whose producer already has status SUCCESS
\* to a listener one of whose workers is blocked on a producer that is still
\* PENDING, the listener goes on to receive that REQUEST and to send its
\* response (the request leaves the transport and the table of outstanding
\* requests), whether or not the blocked worker ever resumes.
C37_ReadyRequestAnswered ==
    \A r \in World(2) : \A c \in RunDummies :
        LET s == 1 - r
            Requested == thread[r][c].pc = "recv"
            Ready == thread[s][peer[s].cap_tbl[thread[r][c].cap]].status
                        = SUCCESS
            OtherBlocked ==
                \E i \in DOMAIN rab[s].outstanding :
                    LET e == rab[s].outstanding[i] IN
                      /\ e.by # <<r, c>>
                      /\ e.state = "running"
                      /\ thread[s][peer[s].cap_tbl[e.cap]].status = PENDING
            Unanswered ==
                \/ \E j \in DOMAIN chan[r][s] :
                      chan[r][s][j].kind = "req" /\ chan[r][s][j].by = <<r, c>>
                \/ \E i \in DOMAIN rab[s].outstanding :
                      rab[s].outstanding[i].by = <<r, c>>
        IN  (Requested /\ Ready /\ OtherBlocked /\ Unanswered)
                ~> ~Unanswered

\* C38: every tag unique_tag() returns differs from the tags of the message
\* kinds, TAG_REQ and TAG_CONFIG, so no RESPONSE in flight carries the tag
\* the listener probes for, and no REQUEST carries the tag a fetch thread
\* receives on.
C38_TagsAvoidMessageKinds ==
    /\ \A r \in Ranks : \A c \in RunComps :
          thread[r][c].pc \in {"tagged", "recv"} =>
              thread[r][c].tag \notin {TAG_REQ, TAG_CONFIG}
    /\ \A s \in Ranks : \A d \in Ranks : \A j \in DOMAIN chan[s][d] :
          LET m == chan[s][d][j] IN
            /\ m.kind = "resp" => m.tag \notin {TAG_REQ, TAG_CONFIG}
            /\ m.kind = "req" =>
                  \A c \in RunComps : thread[d][c].pc = "recv" =>
                      thread[d][c].tag # m.tag

\* C39: process_incoming consumes only REQUEST messages.  In every step in
\* which the listener of a process, after its probe has reported a REQUEST
\* from peer s, performs its receive, the message it takes from s is a
\* REQUEST, never a RESPONSE that s sent to a thread of this process.
C39_ListenerTakesOnlyRequests ==
    [][\A r \in Ranks :
          (rab[r].pc = "recv" /\ rab'[r].pc # "recv") =>
              Head(chan[rab[r].src][r]).kind = "req"]_vars

====
